---- MODULE Spec2Model ----
(***************************************************************************)
(* A model of fazer, a differential fuzzer for multi-objective MaxSAT      *)
(* solvers: the streaming instance generator (src/src/generate.rs) and the *)
(* Pareto-front oracle (src/src/eval.rs).                                  *)
(*                                                                         *)
(* The random source (ChaCha8) is a stream that is a function of its seed: *)
(* a draw is a nondeterministic choice from the range the code samples,    *)
(* and two generators whose random sources are in the same state draw the  *)
(* same value (see PairNext).                                              *)
(***************************************************************************)
EXTENDS Integers, Sequences, FiniteSets, TLC

VARIABLES
    gen,     \* the MoGenerator struct, with the locals of a next() call in progress
    line,    \* the value returned by the last call of next() (Pending during a call)
    out,     \* every line returned so far: its type, soft annotation and origin
    gen2,    \* a second generator, stepped side by side with gen (SpecPair)
    line2,   \* the value returned by the last call of next() on gen2
    ev,      \* one call of compare: the solvers, the channels, the result (SpecEval)
    fz,      \* one call of fuzz: the random source's draws, the results (SpecFuzz)
    mn       \* one run of main: the command and the exit code (SpecMain)

vars == <<gen, line, out, gen2, line2, ev, fz, mn>>

(***************************************************************************)
(* Bounds of the model.                                                    *)
(***************************************************************************)
MaxLayers == 2      \* config.layers() is 1..=MaxLayers
MaxWidth == 2       \* the widest layer (the source draws up to 70)
MaxVars == 4        \* instances of at most MaxVars layer variables
MaxLen == 4         \* layer clauses of at most MaxLen literals (MAX_CL_LEN in the source)
MaxObjs == 1        \* config.objs() is 0..=MaxObjs
MaxEqs == 2         \* the source draws up to 31
MaxAnds == 1        \* the source draws up to 31
MaxXors3 == 1       \* the source draws up to 16
MaxXors4 == 1       \* the source draws up to 12
MaxGadgets == 2     \* instances of at most MaxGadgets gadgets in total
MaxSoft == 2        \* instances of at most MaxSoft soft gadgets
MaxXorVars == 3     \* XOR gadgets on instances of at most MaxXorVars layer variables
MaxDraws == 2600    \* instances whose gadgets' draws have at most MaxDraws outcomes in total
UsizeBits == 20     \* the width of usize / u64 in the model (64 in the source)
MaxSeed == 1        \* seeds are 1..MaxSeed

(***************************************************************************)
(* Program constants.                                                      *)
(***************************************************************************)
MAX_CL_LEN == 20
MinClLen == 3       \* let mut len = 3
NHeader == 10       \* header lines 0..=9
PctLo == 100        \* gen_range(100..=250) * width_plus_last / 100
PctHi == 250
PctDiv == 100
SoftFactor == 4     \* n_clauses > 4 * width_plus_last

Pow2(n) == 2 ^ n
U64_MAX == Pow2(UsizeBits) - 1
\* The claimed ceiling of a weight sum: 2^63 - 1 in the source's width.
I64_MAX == Pow2(UsizeBits - 1) - 1

None == <<>>
Some(x) == <<x>>

\* The locals of next() when no call is in progress.
NoLoc == [call |-> "none"]

Min(a, b) == IF a < b THEN a ELSE b
Max(a, b) == IF a < b THEN b ELSE a

RECURSIVE SumSeq(_)
SumSeq(s) == IF s = <<>> THEN 0 ELSE Head(s) + SumSeq(Tail(s))

(***************************************************************************)
(* Literals (rustsat): Lit::new(idx, negated), lit.vidx(), !lit.           *)
(***************************************************************************)
Lit(v, neg) == 2 * v + (IF neg THEN 1 ELSE 0)
vidx(l) == l \div 2
Not(l) == IF l % 2 = 0 THEN l + 1 ELSE l - 1
pos_lit(v) == Lit(v, FALSE)

\* Every literal of the variables lo..hi-1.
RangeLits(lo, hi) == {Lit(v, n) : v \in lo..(hi - 1), n \in BOOLEAN}

(***************************************************************************)
(* The streaming cursor.                                                   *)
(***************************************************************************)
LineType(t, a, b) == [t |-> t, a |-> a, b |-> b]
Header(id) == LineType("Header", id, 0)
LayerDesc(idx) == LineType("LayerDesc", idx, 0)
LayerCl(lidx, cidx) == LineType("LayerCl", lidx, cidx)
EqCl(idx) == LineType("EqCl", idx, 0)
AndCl(idx) == LineType("AndCl", idx, 0)
Xor3Cl(idx) == LineType("Xor3Cl", idx, 0)
Xor4Cl(idx) == LineType("Xor4Cl", idx, 0)

(***************************************************************************)
(* Configurations.  The layer type fixes the range of layer widths (from 5 *)
(* or 10 up to max_width).  The model scales the widths down to            *)
(* 0..=max_width and keeps the instances whose layer 0 holds the MinClLen  *)
(* variables a layer clause needs, as every instance of the source does.   *)
(***************************************************************************)
MinWidth == 0

Configs ==
    [seed : {Some(s) : s \in 1..MaxSeed},
     min_objs : {0}, max_objs : {MaxObjs},
     min_layers : {1}, max_layers : {MaxLayers}]

\* The weight range init draws: 1..2, or 1..hi with hi up to (just below) 2^63.
\* The model samples the largest upper end.
WeightHis == {Pow2(UsizeBits - 1) - 1}

(***************************************************************************)
(* MoGenerator::new: the struct before init.  The random source is seeded  *)
(* from the configured seed, or from entropy (a source of its own).        *)
(***************************************************************************)
new_entropy(config, e) ==
    [rng |-> <<"entropy", e>>,
     seed |-> config.seed, objs |-> 0, layers |-> <<>>, arity |-> <<>>,
     soft |-> <<>>, eqs |-> 0, ands |-> 0, xors3 |-> 0, xors4 |-> 0,
     n_soft_left |-> <<>>, weight_range |-> <<0, 0>>, weight_sum |-> 0,
     state |-> Header(0), next_free_var |-> 0, buffer |-> <<>>,
     pc |-> "idle", loc |-> NoLoc]

new(config, e) ==
    [rng |-> IF config.seed # None THEN <<"seed", config.seed[1]>>
             ELSE <<"entropy", e>>,
     seed |-> config.seed, objs |-> 0, layers |-> <<>>, arity |-> <<>>,
     soft |-> <<>>, eqs |-> 0, ands |-> 0, xors3 |-> 0, xors4 |-> 0,
     n_soft_left |-> <<>>, weight_range |-> <<0, 0>>, weight_sum |-> 0,
     state |-> Header(0), next_free_var |-> 0, buffer |-> <<>>,
     pc |-> "idle", loc |-> NoLoc]

(***************************************************************************)
(* MoGenerator::init.  d holds the values drawn: max_width, the widths and *)
(* clause percentages of the layers, the gadget counts, objs, the upper    *)
(* end of the weight range, the AND arities and the gadgets' softness.     *)
(***************************************************************************)
\* range.start of layer k (1-based) for the widths ws.
RECURSIVE LayerStart(_, _)
LayerStart(ws, k) == IF k = 1 THEN 0 ELSE LayerStart(ws, k - 1) + ws[k - 1] + 1

LayerEnd(ws, k) == LayerStart(ws, k) + ws[k] + 1

\* width_plus_last of layer k.
WidthPlusLast(ws, k) ==
    IF k > 1 THEN ws[k] + LayerEnd(ws, k - 1) - LayerStart(ws, k - 1) ELSE ws[k]

InitLayer(ws, pct, k) ==
    LET wpl == WidthPlusLast(ws, k)
        n == (pct[k] * wpl) \div PctDiv
    IN [range |-> <<LayerStart(ws, k), LayerEnd(ws, k)>>,
        n_clauses |-> n,
        soft |-> 0,
        unused |-> RangeLits(LayerStart(ws, k), LayerEnd(ws, k))]

\* width_plus_last of the last layer, as computed for the arities.
LastWidthPlusLast(layers) ==
    LET n == Len(layers)
    IN IF n > 1
       THEN layers[n].range[2] - layers[n].range[1]
            + layers[n - 1].range[2] - layers[n - 1].range[1]
       ELSE layers[1].range[2] - layers[1].range[1]

MaxArity(layers) == Min(MAX_CL_LEN, LastWidthPlusLast(layers) \div 2)

n_softs_of(objs, layers, soft) ==
    [o \in 1..objs |->
        Cardinality({k \in 1..Len(layers) : layers[k].soft = o})
        + Cardinality({k \in 1..Len(soft) : soft[k] = o})]

n_softs(g) == n_softs_of(g.objs, g.layers, g.soft)

init(g, config, d) ==
    LET layers == [k \in 1..Len(d.widths) |-> InitLayer(d.widths, d.pct, k)]
    IN [g EXCEPT
          !.layers = layers,
          !.eqs = d.eqs, !.ands = d.ands, !.xors3 = d.xors3, !.xors4 = d.xors4,
          !.objs = d.objs,
          !.weight_range = <<1, d.whi>>,
          !.arity = d.arity,
          !.soft = d.soft,
          !.next_free_var = layers[Len(layers)].range[2],
          !.n_soft_left = n_softs_of(d.objs, layers, d.soft)]

\* gen_range(100..=250), sampled at its lower end.
PctDraws == {PctLo}

\* The layer draws of init: gen_range(max widths), gen_range(config.layers()),
\* per layer gen_range(min..=max_width) and gen_range(100..=250).
LayerDraws(config) ==
    UNION {[max_width : {mw},
            widths : [1..n -> MinWidth..mw],
            pct : [1..n -> PctDraws]] :
           <<mw, n>> \in (MinWidth..MaxWidth) \X (config.min_layers..config.max_layers)}

\* A layer is flagged soft by gen_range(1..=self.objs) while objs is still 0:
\* an empty range, on which the draw panics and no generator is built.
LayerDrawsOk(ld) ==
    \A k \in 1..Len(ld.widths) :
        ~((ld.pct[k] * WidthPlusLast(ld.widths, k)) \div PctDiv
             > SoftFactor * WidthPlusLast(ld.widths, k))

CountDraws(config) ==
    [eqs : 0..MaxEqs, ands : 0..MaxAnds, xors3 : 0..MaxXors3, xors4 : 0..MaxXors4,
     objs : config.min_objs..config.max_objs, whi : WeightHis]

\* The outcomes of the draws of the gadgets of an instance of nv variables,
\* summed over the gadgets: the literals (an AND counted at the smallest
\* arity) and, for a soft gadget, the two weights the model samples.
GadgetDraws(nv, c, s) ==
    SumSeq([k \in 1..Len(s) |->
              (IF s[k] > 0 THEN 2 ELSE 1)
              * (2 * nv) ^ (IF k <= c.eqs THEN 2
                            ELSE IF k <= c.eqs + c.ands + c.xors3 THEN 3 ELSE 4)])

\* The softness draws: 0 for every gadget when objs = 0, else hard or 1..=objs.
SoftDraws(objs, n) == [1..n -> IF objs > 0 THEN 0..objs ELSE {0}]

InitDraws(config) ==
    UNION {
      UNION {
        {[max_width |-> ld.max_width, widths |-> ld.widths, pct |-> ld.pct,
          eqs |-> cd.eqs, ands |-> cd.ands, xors3 |-> cd.xors3, xors4 |-> cd.xors4,
          objs |-> cd.objs, whi |-> cd.whi, arity |-> a, soft |-> s] :
         <<a, s>> \in
            [1..cd.ands -> 2..Min(MAX_CL_LEN,
                                  (IF Len(ld.widths) > 1
                                   THEN ld.widths[Len(ld.widths)] + 1
                                        + ld.widths[Len(ld.widths) - 1] + 1
                                   ELSE ld.widths[1] + 1) \div 2)]
            \X {s \in SoftDraws(cd.objs, cd.eqs + cd.ands + cd.xors3 + cd.xors4) :
                   /\ Cardinality({k \in DOMAIN s : s[k] > 0}) <= MaxSoft
                   /\ GadgetDraws(LayerEnd(ld.widths, Len(ld.widths)), cd, s)
                         <= MaxDraws}} :
        cd \in {c \in CountDraws(config) :
                   /\ c.eqs + c.ands + c.xors3 + c.xors4 <= MaxGadgets
                   /\ \/ c.xors3 + c.xors4 = 0
                      \/ LayerEnd(ld.widths, Len(ld.widths)) <= MaxXorVars}} :
      ld \in {l \in LayerDraws(config) :
                 /\ LayerDrawsOk(l)
                 /\ l.widths[1] + 1 >= MinClLen
                 /\ LayerEnd(l.widths, Len(l.widths)) <= MaxVars}}


(***************************************************************************)
(* Lines and clauses.  A Cl is (Option<(u8, usize)>, Clause); org is the   *)
(* cursor item the clause was generated for (not part of the program's     *)
(* state: it lets the line order be stated).                               *)
(***************************************************************************)
Pending == [type |-> "Pending"]
\* next() returning None: the end of the stream.
End == [type |-> "None"]

Comment(text) == [type |-> "Comment", text |-> text]
Hard(cl) == [type |-> "Hard", cl |-> cl]
Soft(cl, w, o) == [type |-> "Soft", cl |-> cl, w |-> w, o |-> o]

Cl(w, cl, org) == [w |-> w, cl |-> cl, org |-> org]

map_clause(c) ==
    IF c.w # None THEN Soft(c.cl, c.w[1][2], c.w[1][1]) ELSE Hard(c.cl)

\* What a step of next() yields: the generator, the value returned (Pending
\* while the call is inside a retry loop) and the origin of the line.
Ret(g, ret, org) == [g |-> g, ret |-> ret, org |-> org]

n_clauses(g) ==
    SumSeq([k \in 1..Len(g.layers) |-> g.layers[k].n_clauses])
    + SumSeq([k \in 1..Len(g.arity) |-> g.arity[k] + 1])
    + Cardinality({k \in 1..Len(g.soft) : g.soft[k] > 0})
    + 2 * g.eqs + 4 * g.xors3 + 8 * g.xors4

\* A weight draw that leaves n_soft_left alone.
weight_nodec(g, oidx, wd) ==
    LET left == g.n_soft_left[oidx + 1] - 1
    IN IF wd + left >= U64_MAX - g.weight_sum
       THEN [g |-> [g EXCEPT !.weight_range = <<1, 2>>],
             weight |-> (U64_MAX - 1) - g.weight_sum - left]
       ELSE [g |-> g, weight |-> wd]

\* Bounded-weight draw; wd is the value of gen_range(self.weight_range).
weight(g, oidx, wd) ==
    LET left == g.n_soft_left[oidx + 1] - 1
        g1 == [g EXCEPT !.n_soft_left[oidx + 1] = left]
    IN IF wd + left >= U64_MAX - g.weight_sum
       THEN [g |-> [g1 EXCEPT !.weight_range = <<1, 2>>],
             weight |-> (U64_MAX - 1) - g.weight_sum - left]
       ELSE [g |-> g1, weight |-> wd]

\* gen_range(self.weight_range), sampled at both ends of the range.
WeightDraws(g) == {g.weight_range[1], g.weight_range[2] - 1}

\* A formatted comment: the fixed text and the numbers printed in it.
Text(s, args) == [s |-> s, args |-> args]

header_line(g, id) ==
    CASE id = 0 -> Text("Generated by fazer", <<>>)
      [] id = 1 -> IF g.seed # None THEN Text("seed", <<g.seed[1]>>)
                   ELSE Text("seeded by entropy", <<>>)
      [] id = 2 -> Text("objectives", <<g.objs>>)
      [] id = 3 -> Text("weight range", g.weight_range)
      [] id = 4 -> Text("clauses", <<n_clauses(g)>>)
      [] id = 5 -> Text("soft clauses", n_softs(g))
      [] id = 6 -> Text("equalitites", <<g.eqs>>)
      [] id = 7 -> Text("ands", <<g.ands>>)
      [] id = 8 -> Text("xors3", <<g.xors3>>)
      [] OTHER -> Text("xors4", <<g.xors4>>)

layer_desc(g, idx) ==
    Text("layer",
         <<idx, g.layers[idx + 1].range[1], g.layers[idx + 1].range[2],
           g.layers[idx + 1].n_clauses>>)

\* The literals gen_range(0..layers.len()) and gen_range(layer.range) can pick.
AllLits(g) == RangeLits(0, g.layers[Len(g.layers)].range[2])
AllVars(g) == 0..(g.layers[Len(g.layers)].range[2] - 1)

(***************************************************************************)
(* next(): the arms of the cursor that return nothing and `continue`.      *)
(***************************************************************************)
RECURSIVE cursor(_, _)
cursor(g, st) ==
    CASE st.t = "Header" ->
            IF st.a > NHeader - 1 THEN cursor(g, LayerDesc(0)) ELSE st
      [] st.t = "LayerDesc" ->
            IF st.a >= Len(g.layers) THEN cursor(g, LayerCl(0, 0)) ELSE st
      [] st.t = "LayerCl" ->
            IF st.a >= Len(g.layers) THEN cursor(g, EqCl(0))
            ELSE IF st.b >= g.layers[st.a + 1].n_clauses
                 THEN cursor(g, LayerCl(st.a + 1, 0))
                 ELSE st
      [] st.t = "EqCl" -> IF st.a >= g.eqs THEN cursor(g, AndCl(0)) ELSE st
      [] st.t = "AndCl" -> IF st.a >= g.ands THEN cursor(g, Xor3Cl(0)) ELSE st
      [] st.t = "Xor3Cl" -> IF st.a >= g.xors3 THEN cursor(g, Xor4Cl(0)) ELSE st
      [] OTHER -> st

\* A next() that looks at the buffer only once the cursor is at its end.
Kind_cursor_first(g) ==
    IF g.pc = "layer_clause" THEN "layer_lit"
    ELSE IF g.pc = "and_clauses" THEN "and_rhs"
    ELSE IF g.pc = "xor_clauses" THEN "xor_lit"
    ELSE IF g.pc = "eq_clauses" /\ g.loc # NoLoc THEN "eq_lits"
    ELSE LET c == cursor(g, g.state)
         IN IF c.t = "Xor4Cl" /\ c.a >= g.xors4
            THEN IF g.pc = "idle" /\ g.buffer # <<>> THEN "buffered" ELSE "None"
            ELSE c.t

\* Which step of next() the generator is at.
Kind(g) ==
    IF g.pc = "layer_clause" THEN "layer_lit"
    ELSE IF g.pc = "and_clauses" THEN "and_rhs"
    ELSE IF g.pc = "xor_clauses" THEN "xor_lit"
    ELSE IF g.pc = "eq_clauses" /\ g.loc # NoLoc THEN "eq_lits"
    ELSE IF g.pc = "idle" /\ g.buffer # <<>> THEN "buffered"
    ELSE LET c == cursor(g, g.state)
         IN IF c.t = "Xor4Cl" /\ c.a >= g.xors4 THEN "None" ELSE c.t

(***************************************************************************)
(* layer_clause.                                                           *)
(***************************************************************************)
\* The length loop without the test `len < range.end`.
LenDraws_unbounded(g, lidx) == MinClLen..Min(MaxLen, MAX_CL_LEN)

\* The length drawn by the loop `while len < MAX_CL_LEN && len < range.end
\* && gen_bool(2/3)`.
LenDraws(g, lidx) ==
    MinClLen..Min(MaxLen, Max(MinClLen, Min(MAX_CL_LEN, g.layers[lidx + 1].range[2])))

\* A layer clause under construction holds its literals in ascending order:
\* no operation of the generator reads the position of a literal in it.
RECURSIVE add_lit(_, _)
add_lit(cl, lit) ==
    IF cl = <<>> THEN <<lit>>
    ELSE IF lit < Head(cl) THEN <<lit>> \o cl
    ELSE <<Head(cl)>> \o add_lit(Tail(cl), lit)

\* Entry of layer_clause(lidx, cidx): the length, the weight of a soft layer.
layer_clause_start(g, c, d) ==
    LET layer == g.layers[c.a + 1]
        wr == IF layer.soft > 0 THEN weight(g, layer.soft - 1, d.w)
              ELSE [g |-> g, weight |-> 0]
        w == IF layer.soft > 0 THEN Some(<<layer.soft - 1, wr.weight>>) ELSE None
    IN Ret([wr.g EXCEPT !.state = LayerCl(c.a, c.b + 1),
                        !.pc = "layer_clause",
                        !.loc = [lidx |-> c.a, cidx |-> c.b, len |-> d.len,
                                 weight |-> w, mark |-> {}, cl |-> <<>>, idx |-> 0]],
           Pending, c)

\* A swap_remove that takes both literals of the variable out of the pool.
layer_take_var(g, l, lit) ==
    [g EXCEPT !.layers[l + 1].unused = @ \ {lit, Not(lit)}]

\* layer.unused.swap_remove(..) when the pool is not empty.
layer_take(g, l, lit) ==
    [g EXCEPT !.layers[l + 1].unused = @ \ {lit}]

\* One iteration of `while idx < len`: the origin layer d.l, the literal d.lit.
layer_clause_lit(g, d) ==
    LET g1 == layer_take(g, d.l, d.lit)
        loc == g.loc
        org == LayerCl(loc.lidx, loc.cidx)
    IN IF vidx(d.lit) \in loc.mark
       THEN Ret(g1, Pending, org)
       ELSE LET cl == add_lit(loc.cl, d.lit)
            IN IF loc.idx + 1 < loc.len
               THEN Ret([g1 EXCEPT !.loc.cl = cl,
                                   !.loc.mark = @ \cup {vidx(d.lit)},
                                   !.loc.idx = @ + 1],
                        Pending, org)
               ELSE Ret([g1 EXCEPT !.pc = "idle", !.loc = NoLoc],
                        map_clause(Cl(loc.weight, cl, org)), org)

\* Draws of an iteration whose walk reaches any layer, later ones included.
LayerLitDraws_any(g) ==
    UNION {{[l |-> l, lit |-> lit] :
              lit \in IF g.layers[l + 1].unused # {}
                      THEN g.layers[l + 1].unused
                      ELSE RangeLits(g.layers[l + 1].range[1],
                                     g.layers[l + 1].range[2])} :
           l \in 0..(Len(g.layers) - 1)}

\* The draws of one iteration: the layer reached by the downward walk, then a
\* literal of its pool, or any literal of its range when the pool is empty.
LayerLitDraws(g) ==
    UNION {{[l |-> l, lit |-> lit] :
              lit \in IF g.layers[l + 1].unused # {}
                      THEN g.layers[l + 1].unused
                      ELSE RangeLits(g.layers[l + 1].range[1],
                                     g.layers[l + 1].range[2])} :
           l \in 0..g.loc.lidx}

(***************************************************************************)
(* Gadgets.  A gadget's batch cls is handed to next(), which returns       *)
(* cls[0] and appends the rest to the buffer.                              *)
(***************************************************************************)
\* A next() that returns the last clause of the batch and buffers the others.
batch_last_first(g, cls, st, org) ==
    Ret([g EXCEPT !.buffer = @ \o SubSeq(cls, 1, Len(cls) - 1),
                  !.state = st, !.pc = "idle", !.loc = NoLoc],
        map_clause(cls[Len(cls)]), org)

\* self.buffer.extend(cls.drain(1..)); self.state = ..; cls.pop().unwrap()
batch(g, cls, st, org) ==
    Ret([g EXCEPT !.buffer = @ \o Tail(cls),
                  !.state = st, !.pc = "idle", !.loc = NoLoc],
        map_clause(Head(cls)), org)

\* An equality gadget that takes no blocking variable when it is soft.
eq_clauses_noblock(g, idx, d) ==
    LET lit1 == Lit(d.v1, d.n1)
        lit2 == Lit(d.v2, d.n2)
        sidx == idx + 1
        org == EqCl(idx)
    IN IF g.soft[sidx] > 0
       THEN LET blit == pos_lit(g.next_free_var)
                wr == weight(g, g.soft[sidx] - 1, d.w)
            IN [g |-> wr.g,
                cls |-> <<Cl(None, <<blit, lit1, lit2>>, org),
                          Cl(None, <<blit, Not(lit1), Not(lit2)>>, org),
                          Cl(Some(<<g.soft[sidx] - 1, wr.weight>>), <<Not(blit)>>, org)>>]
       ELSE [g |-> g,
             cls |-> <<Cl(None, <<lit1, lit2>>, org),
                       Cl(None, <<Not(lit1), Not(lit2)>>, org)>>]

\* eq_clauses(idx) once v1 # v2: the signs, the blocking literal, the weight.
eq_clauses(g, idx, d) ==
    LET lit1 == Lit(d.v1, d.n1)
        lit2 == Lit(d.v2, d.n2)
        sidx == idx + 1
        org == EqCl(idx)
    IN IF g.soft[sidx] > 0
       THEN LET blit == pos_lit(g.next_free_var)
                g1 == [g EXCEPT !.next_free_var = @ + 1]
                wr == weight(g1, g.soft[sidx] - 1, d.w)
            IN [g |-> wr.g,
                cls |-> <<Cl(None, <<blit, lit1, lit2>>, org),
                          Cl(None, <<blit, Not(lit1), Not(lit2)>>, org),
                          Cl(Some(<<g.soft[sidx] - 1, wr.weight>>), <<Not(blit)>>, org)>>]
       ELSE [g |-> g,
             cls |-> <<Cl(None, <<lit1, lit2>>, org),
                       Cl(None, <<Not(lit1), Not(lit2)>>, org)>>]

\* The EqCl arm, the draw of v1 and v2: with v1 = v2 eq_clauses is entered
\* again, nothing changed.
eq_step(g, c, d) ==
    IF d.v1 = d.v2
    THEN Ret([g EXCEPT !.pc = "eq_clauses", !.loc = NoLoc], Pending, c)
    ELSE Ret([g EXCEPT !.pc = "eq_clauses",
                       !.loc = [idx |-> c.a, v1 |-> d.v1, v2 |-> d.v2]],
             Pending, c)

\* The rest of eq_clauses and of the EqCl arm.
eq_lits(g, d) ==
    LET loc == g.loc
        r == eq_clauses(g, loc.idx,
                        [v1 |-> loc.v1, v2 |-> loc.v2,
                         n1 |-> d.n1, n2 |-> d.n2, w |-> d.w])
    IN batch(r.g, r.cls, EqCl(loc.idx + 1), EqCl(loc.idx))

\* The weight a gadget draws: none (0 here) unless it is soft.
GadgetWeightDraws(g, sidx) == IF g.soft[sidx] > 0 THEN WeightDraws(g) ELSE {0}

\* The two variables, each of any layer.
EqDraws(g) == {[v1 |-> x, v2 |-> y, w |-> 0] : x \in AllVars(g), y \in AllVars(g)}

\* The two signs and, for a soft gadget, the weight.
EqLitDraws(g) ==
    {[n1 |-> x, n2 |-> y, w |-> w] :
        x \in BOOLEAN, y \in BOOLEAN, w \in GadgetWeightDraws(g, g.loc.idx + 1)}

\* The binary clauses (!lhs, !rhs) for the literals of cl after the first.
and_binaries(cl, lhs, org) ==
    [k \in 1..(Len(cl) - 1) |-> Cl(None, <<Not(lhs), Not(cl[k + 1])>>, org)]

\* The end of and_clauses: cl holds lhs and the arity rhs literals.
and_finish(g, loc, cl, wd) ==
    LET sidx == g.eqs + loc.idx + 1
        org == AndCl(loc.idx)
    IN IF g.soft[sidx] > 0
       THEN LET blit == pos_lit(g.next_free_var)
                g1 == [g EXCEPT !.next_free_var = @ + 1]
                clb == Append(cl, blit)
                wr == weight(g1, g.soft[sidx] - 1, wd)
            IN [g |-> wr.g,
                cls |-> <<Cl(None, clb, org)>>
                        \o and_binaries(clb, loc.lhs, org)
                        \o <<Cl(Some(<<g.soft[sidx] - 1, wr.weight>>),
                                <<Not(blit)>>, org)>>]
       ELSE [g |-> g,
             cls |-> <<Cl(None, cl, org)>> \o and_binaries(cl, loc.lhs, org)]

\* Entry of and_clauses(idx): the lhs literal; the rhs loop follows.
and_clauses_start(g, c, d) ==
    LET loc == [idx |-> c.a, lhs |-> d.lhs, mark |-> {vidx(d.lhs)},
                cl |-> <<d.lhs>>, arity |-> g.arity[c.a + 1], lidx |-> 0]
    IN IF loc.lidx < loc.arity
       THEN Ret([g EXCEPT !.pc = "and_clauses", !.loc = loc], Pending, c)
       ELSE LET r == and_finish(g, loc, loc.cl, d.w)
            IN batch(r.g, r.cls, AndCl(c.a + 1), c)

\* One iteration of `while lidx < arity`.
and_clauses_rhs(g, d) ==
    LET loc == g.loc
        org == AndCl(loc.idx)
    IN IF vidx(d.rhs) \in loc.mark
       THEN Ret(g, Pending, org)
       ELSE LET cl == Append(loc.cl, d.rhs)
            IN IF loc.lidx + 1 < loc.arity
               THEN Ret([g EXCEPT !.loc.cl = cl,
                                  !.loc.mark = @ \cup {vidx(d.rhs)},
                                  !.loc.lidx = @ + 1],
                        Pending, org)
               ELSE LET r == and_finish(g, loc, cl, d.w)
                    IN batch(r.g, r.cls, AndCl(loc.idx + 1), org)

\* The weight is drawn at the entry only by a soft gadget of arity 0.
AndStartDraws(g, idx) ==
    {[lhs |-> l, w |-> w] :
        l \in AllLits(g),
        w \in IF g.arity[idx + 1] = 0 THEN GadgetWeightDraws(g, g.eqs + idx + 1)
              ELSE {0}}

\* The weight is drawn only by the iteration that completes a soft gadget.
AndRhsDraws(g) ==
    {[rhs |-> l, w |-> w] :
        l \in AllLits(g),
        w \in IF g.loc.lidx + 1 >= g.loc.arity
              THEN GadgetWeightDraws(g, g.eqs + g.loc.idx + 1) ELSE {0}}

xor3_clauses(g, idx, d) ==
    LET lits == d.lits
        sidx == g.eqs + g.ands + idx + 1
        org == Xor3Cl(idx)
    IN IF g.soft[sidx] > 0
       THEN LET blit == pos_lit(g.next_free_var)
                g1 == [g EXCEPT !.next_free_var = @ + 1]
                wr == weight(g1, g.soft[sidx] - 1, d.w)
            IN [g |-> wr.g,
                cls |-> <<Cl(None, <<blit, lits[1], lits[2], lits[3]>>, org),
                          Cl(None, <<blit, lits[1], Not(lits[2]), Not(lits[3])>>, org),
                          Cl(None, <<blit, Not(lits[1]), lits[2], Not(lits[3])>>, org),
                          Cl(None, <<blit, Not(lits[1]), Not(lits[2]), lits[3]>>, org),
                          Cl(Some(<<g.soft[sidx] - 1, wr.weight>>), <<Not(blit)>>, org)>>]
       ELSE [g |-> g,
             cls |-> <<Cl(None, <<lits[1], lits[2], lits[3]>>, org),
                       Cl(None, <<lits[1], Not(lits[2]), Not(lits[3])>>, org),
                       Cl(None, <<Not(lits[1]), lits[2], Not(lits[3])>>, org),
                       Cl(None, <<Not(lits[1]), Not(lits[2]), lits[3]>>, org)>>]

xor4_clauses(g, idx, d) ==
    LET lits == d.lits
        sidx == g.eqs + g.ands + g.xors3 + idx + 1
        org == Xor4Cl(idx)
    IN IF g.soft[sidx] > 0
       THEN LET blit == pos_lit(g.next_free_var)
                g1 == [g EXCEPT !.next_free_var = @ + 1]
                wr == weight(g1, g.soft[sidx] - 1, d.w)
            IN [g |-> wr.g,
                cls |-> <<Cl(None, <<blit, lits[1], lits[2], lits[3], lits[4]>>, org),
                          Cl(None, <<blit, lits[1], lits[2], Not(lits[3]), Not(lits[4])>>, org),
                          Cl(None, <<blit, lits[1], Not(lits[2]), lits[3], Not(lits[4])>>, org),
                          Cl(None, <<blit, lits[1], Not(lits[2]), Not(lits[3]), lits[4]>>, org),
                          Cl(None, <<blit, Not(lits[1]), lits[2], lits[3], Not(lits[4])>>, org),
                          Cl(None, <<blit, Not(lits[1]), lits[2], Not(lits[3]), lits[4]>>, org),
                          Cl(None, <<blit, Not(lits[1]), Not(lits[2]), lits[3], lits[4]>>, org),
                          Cl(None, <<blit, Not(lits[1]), Not(lits[2]), Not(lits[3]), Not(lits[4])>>, org),
                          Cl(Some(<<g.soft[sidx] - 1, wr.weight>>), <<Not(blit)>>, org)>>]
       ELSE [g |-> g,
             cls |-> <<Cl(None, <<lits[1], lits[2], lits[3]>>, org),
                       Cl(None, <<lits[1], Not(lits[2]), Not(lits[3])>>, org),
                       Cl(None, <<Not(lits[1]), lits[2], Not(lits[3])>>, org),
                       Cl(None, <<Not(lits[1]), Not(lits[2]), lits[3]>>, org)>>]

\* Entry of xor3_clauses / xor4_clauses (n literals): the draw of lits[0].
xor_start(g, c, n, d) ==
    Ret([g EXCEPT !.pc = "xor_clauses",
                  !.loc = [idx |-> c.a, n |-> n, lits |-> <<d.lit>>]],
        Pending, c)

\* One iteration of `for k in 0..n` after the first; the last one is followed
\* by the construction of the clauses.
xor_lit(g, d) ==
    LET loc == g.loc
        lits == Append(loc.lits, d.lit)
    IN IF Len(lits) < loc.n
       THEN Ret([g EXCEPT !.loc.lits = lits], Pending,
                IF loc.n = 3 THEN Xor3Cl(loc.idx) ELSE Xor4Cl(loc.idx))
       ELSE IF loc.n = 3
            THEN LET r == xor3_clauses(g, loc.idx, [lits |-> lits, w |-> d.w])
                 IN batch(r.g, r.cls, Xor3Cl(loc.idx + 1), Xor3Cl(loc.idx))
            ELSE LET r == xor4_clauses(g, loc.idx, [lits |-> lits, w |-> d.w])
                 IN batch(r.g, r.cls, Xor4Cl(loc.idx + 1), Xor4Cl(loc.idx))

\* A literal of any layer; the weight is drawn after the last literal of a
\* soft gadget.
XorLitDraws(g, sidx, last) ==
    {[lit |-> l, w |-> w] :
        l \in AllLits(g),
        w \in IF last THEN GadgetWeightDraws(g, sidx) ELSE {0}}

(***************************************************************************)
(* next(), one step: the draws the step makes and what it yields.          *)
(***************************************************************************)
NoDraw == [w |-> 0]

Draws(g) ==
    LET k == Kind(g)
    IN CASE k = "layer_lit" -> LayerLitDraws(g)
         [] k = "LayerCl" ->
              LET c == cursor(g, g.state)
              IN {[len |-> n, w |-> w] :
                    n \in LenDraws(g, c.a),
                    w \in IF g.layers[c.a + 1].soft > 0 THEN WeightDraws(g) ELSE {0}}
         [] k = "EqCl" -> EqDraws(g)
         [] k = "eq_lits" -> EqLitDraws(g)
         [] k = "AndCl" -> AndStartDraws(g, cursor(g, g.state).a)
         [] k = "and_rhs" -> AndRhsDraws(g)
         [] k = "Xor3Cl" -> XorLitDraws(g, 1, FALSE)
         [] k = "Xor4Cl" -> XorLitDraws(g, 1, FALSE)
         [] k = "xor_lit" ->
              XorLitDraws(g,
                          g.eqs + g.ands + g.loc.idx + 1
                            + (IF g.loc.n = 3 THEN 0 ELSE g.xors3),
                          Len(g.loc.lits) + 1 >= g.loc.n)
         [] OTHER -> {NoDraw}

Step(g, d) ==
    LET k == Kind(g)
        c == cursor(g, g.state)
    IN CASE k = "buffered" ->
              LET cl == g.buffer[Len(g.buffer)]
              IN Ret([g EXCEPT !.buffer = SubSeq(@, 1, Len(@) - 1)],
                     map_clause(cl), cl.org)
         [] k = "Header" ->
              Ret([g EXCEPT !.state = Header(c.a + 1)],
                  Comment(header_line(g, c.a)), c)
         [] k = "LayerDesc" ->
              Ret([g EXCEPT !.state = LayerDesc(c.a + 1)],
                  Comment(layer_desc(g, c.a)), c)
         [] k = "LayerCl" -> layer_clause_start(g, c, d)
         [] k = "layer_lit" -> layer_clause_lit(g, d)
         [] k = "EqCl" -> eq_step(g, c, d)
         [] k = "eq_lits" -> eq_lits(g, d)
         [] k = "AndCl" -> and_clauses_start(g, c, d)
         [] k = "and_rhs" -> and_clauses_rhs(g, d)
         [] k = "Xor3Cl" -> xor_start(g, c, 3, d)
         [] k = "Xor4Cl" -> xor_start(g, c, 4, d)
         [] k = "xor_lit" -> xor_lit(g, d)
         [] OTHER -> Ret([g EXCEPT !.state = c], End, c)

\* What is kept of a returned line: its type, soft annotation and origin.
Seen(r) ==
    [type |-> r.ret.type,
     w |-> IF r.ret.type = "Soft" THEN Some(<<r.ret.o, r.ret.w>>) ELSE None,
     org |-> r.org]

Yield(r) ==
    /\ gen' = r.g
    /\ IF r.ret = Pending
       THEN line' = Pending /\ UNCHANGED out
       ELSE /\ line' = r.ret
            /\ out' = IF r.ret = End THEN out ELSE Append(out, Seen(r))
    /\ UNCHANGED <<gen2, line2, ev, fz, mn>>

Start == [type |-> "Start"]

(***************************************************************************)
(* The generator alone.                                                    *)
(***************************************************************************)
Init ==
    /\ \E config \in Configs : \E d \in InitDraws(config) :
          gen = init(new(config, 1), config, d)
    /\ line = Start
    /\ out = <<>>
    /\ gen2 = None
    /\ line2 = Start
    /\ ev = None
    /\ fz = None
    /\ mn = None

NextBuffered == Kind(gen) = "buffered" /\ Yield(Step(gen, NoDraw))

NextHeader == Kind(gen) = "Header" /\ Yield(Step(gen, NoDraw))

NextLayerDesc == Kind(gen) = "LayerDesc" /\ Yield(Step(gen, NoDraw))

NextLayerCl == Kind(gen) = "LayerCl" /\ \E d \in Draws(gen) : Yield(Step(gen, d))

LayerLitRetry ==
    /\ Kind(gen) = "layer_lit"
    /\ \E d \in Draws(gen) : vidx(d.lit) \in gen.loc.mark /\ Yield(Step(gen, d))

LayerLitAdd ==
    /\ Kind(gen) = "layer_lit"
    /\ \E d \in Draws(gen) : vidx(d.lit) \notin gen.loc.mark /\ Yield(Step(gen, d))

EqRetry ==
    /\ Kind(gen) = "EqCl"
    /\ \E d \in Draws(gen) : d.v1 = d.v2 /\ Yield(Step(gen, d))

NextEqCl ==
    /\ Kind(gen) = "EqCl"
    /\ \E d \in Draws(gen) : d.v1 # d.v2 /\ Yield(Step(gen, d))

EqLits == Kind(gen) = "eq_lits" /\ \E d \in Draws(gen) : Yield(Step(gen, d))

NextAndCl == Kind(gen) = "AndCl" /\ \E d \in Draws(gen) : Yield(Step(gen, d))

AndRhsRetry ==
    /\ Kind(gen) = "and_rhs"
    /\ \E d \in Draws(gen) : vidx(d.rhs) \in gen.loc.mark /\ Yield(Step(gen, d))

AndRhsAdd ==
    /\ Kind(gen) = "and_rhs"
    /\ \E d \in Draws(gen) : vidx(d.rhs) \notin gen.loc.mark /\ Yield(Step(gen, d))

NextXor3Cl == Kind(gen) = "Xor3Cl" /\ \E d \in Draws(gen) : Yield(Step(gen, d))

NextXor4Cl == Kind(gen) = "Xor4Cl" /\ \E d \in Draws(gen) : Yield(Step(gen, d))

XorLit == Kind(gen) = "xor_lit" /\ \E d \in Draws(gen) : Yield(Step(gen, d))

NextNone == Kind(gen) = "None" /\ Yield(Step(gen, NoDraw))

Next ==
    \/ NextBuffered
    \/ NextHeader
    \/ NextLayerDesc
    \/ NextLayerCl
    \/ LayerLitRetry
    \/ LayerLitAdd
    \/ EqRetry
    \/ NextEqCl
    \/ EqLits
    \/ NextAndCl
    \/ AndRhsRetry
    \/ AndRhsAdd
    \/ NextXor3Cl
    \/ NextXor4Cl
    \/ XorLit
    \/ NextNone

Spec == Init /\ [][Next]_vars

(***************************************************************************)
(* The generator under fair draws: next() is called until it returns None, *)
(* and a retry loop does not draw rejected values for ever.  A draw that   *)
(* is rejected with the pool empty leaves the state as it is, so the steps *)
(* that change the state are the ones that make progress.                  *)
(***************************************************************************)
SpecFair == Init /\ [][Next]_vars /\ WF_vars(Next)

(***************************************************************************)
(* Two generators built from one configuration, stepped side by side.  A   *)
(* seeded random source is a function of its seed and of the draws made so *)
(* far: two generators with the same source in the same state draw the     *)
(* same value.  A generator that has returned its line waits for the other *)
(* to return, so that line and line2 are the values of the same call.      *)
(***************************************************************************)
PairInit ==
    /\ \E config \in Configs : \E d \in InitDraws(config) :
         \E d2 \in (IF new(config, 1).rng = new(config, 2).rng
                    THEN {d} ELSE InitDraws(config)) :
            /\ gen = init(new(config, 1), config, d)
            /\ gen2 = init(new(config, 2), config, d2)
    /\ line = Start
    /\ line2 = Start
    /\ out = <<>>
    /\ ev = None
    /\ fz = None
    /\ mn = None

PairNext ==
    \E d \in Draws(gen) :
      \E d2 \in (IF gen = gen2 THEN {d} ELSE Draws(gen2)) :
        LET r == Step(gen, d)
            r2 == Step(gen2, d2)
            step == line = Pending \/ line2 # Pending
            step2 == line2 = Pending \/ line # Pending
        IN /\ gen' = IF step THEN r.g ELSE gen
           /\ line' = IF step THEN r.ret ELSE line
           /\ gen2' = IF step2 THEN r2.g ELSE gen2
           /\ line2' = IF step2 THEN r2.ret ELSE line2
           /\ UNCHANGED <<out, ev, fz, mn>>

SpecPair == PairInit /\ [][PairNext]_vars

(***************************************************************************)
(* The oracle (src/src/eval.rs).  A non-dominated point is its cost vector *)
(* and, for each of its solutions, what inst.cost(sol) returns: None       *)
(* (unsatisfying) or Some(cost).  A front is a sequence of points.         *)
(***************************************************************************)
NObjs == 2          \* inst.n_objectives()
MaxCost == 3        \* objective values are 1..MaxCost
MaxFront == 2       \* fronts of at most MaxFront points

\* The solvers of the configuration.
Sids == {"A", "B"}

Panic == [p |-> "Panic"]
UnsatSol(i, j) == [p |-> "UnsatSol", i |-> i, j |-> j]
CostMismatch(i, j) == [p |-> "CostMismatch", i |-> i, j |-> j]
Repeated(i, j) == [p |-> "Repeated", i |-> i, j |-> j]
SelfDominated(i) == [p |-> "SelfDominated", i |-> i]
OtherDominated(i) == [p |-> "OtherDominated", i |-> i]
Short == [p |-> "Short"]
WrongDimension(i) == [p |-> "WrongDimension", i |-> i]

Point(costs, sols) == [costs |-> costs, sols |-> sols]

\* The points solvers return: of the right dimension with one solution of
\* that cost, and points of each kind the self-check rejects: of the wrong
\* dimension, with an unsatisfying solution (first, or after a good one),
\* with a solution of another cost.
Points ==
    {Point(c, <<Some(c)>>) : c \in [1..NObjs -> 1..MaxCost]}
    \cup {Point(<<1>>, <<>>),
          Point([k \in 1..NObjs |-> 1], <<None>>),
          Point([k \in 1..NObjs |-> 1], <<Some([k \in 1..NObjs |-> 1]), None>>),
          Point([k \in 1..NObjs |-> 1], <<Some([k \in 1..NObjs |-> MaxCost])>>)}

Fronts == UNION {[1..n -> Points] : n \in 0..MaxFront}

\* What solver.run() does: return a front, or panic.
SolverRuns == {[kind |-> "front", pf |-> pf] : pf \in Fronts} \cup {[kind |-> "panic"]}

\* An evaluate that swallows the panic: the solver counts as returning the
\* empty front.
evaluate_swallow(run) ==
    IF run.kind = "panic" THEN [ok |-> TRUE, pf |-> <<>>]
    ELSE [ok |-> TRUE, pf |-> run.pf]

\* evaluate: Ok(front), or Err(Problem::Panic) for a caught panic.
evaluate(run) ==
    IF run.kind = "panic" THEN [ok |-> FALSE, prob |-> Panic]
    ELSE [ok |-> TRUE, pf |-> run.pf]

\* A check_relation that returns at the first objective that differs.
check_relation_first(c1, c2) ==
    LET diff == {k \in 1..Min(Len(c1), Len(c2)) : c1[k] # c2[k]}
    IN IF diff = {} THEN "Equal"
       ELSE LET k == CHOOSE x \in diff : \A y \in diff : x <= y
            IN IF c1[k] < c2[k] THEN "FirstDominates" ELSE "SecondDominates"

\* A check_relation that lets the last differing component decide.
check_relation_last(c1, c2) ==
    LET diff == {k \in 1..Min(Len(c1), Len(c2)) : c1[k] # c2[k]}
    IN IF diff = {} THEN "Equal"
       ELSE LET k == CHOOSE x \in diff : \A y \in diff : x >= y
            IN IF c1[k] < c2[k] THEN "FirstDominates" ELSE "SecondDominates"

RECURSIVE check_relation_from(_, _, _, _)
check_relation_from(c1, c2, k, dom) ==
    IF k > Min(Len(c1), Len(c2)) THEN dom
    ELSE IF c1[k] < c2[k]
         THEN IF dom = "SecondDominates" THEN "Incomparable"
              ELSE check_relation_from(c1, c2, k + 1, "FirstDominates")
    ELSE IF c2[k] < c1[k]
         THEN IF dom = "FirstDominates" THEN "Incomparable"
              ELSE check_relation_from(c1, c2, k + 1, "SecondDominates")
    ELSE check_relation_from(c1, c2, k + 1, dom)

check_relation(c1, c2) == check_relation_from(c1, c2, 1, "Equal")

MinOf(S) == CHOOSE x \in S : \A y \in S : x <= y

\* A first loop of check_pf that skips the solutions inst.cost gives no cost.
check_point_skip_unsat(p, ndom_idx, nobjs) ==
    IF Len(p.costs) # nobjs THEN Some(WrongDimension(ndom_idx))
    ELSE LET bad == {j \in 1..Len(p.sols) :
                        p.sols[j] # None /\ p.sols[j] # Some(p.costs)}
         IN IF bad = {} THEN None
            ELSE Some(CostMismatch(ndom_idx, MinOf(bad) - 1))

\* A first loop of check_pf without the test of the dimension.
check_point_nodim(p, ndom_idx, nobjs) ==
    LET bad == {j \in 1..Len(p.sols) : p.sols[j] # Some(p.costs)}
    IN IF bad = {} THEN None
       ELSE IF p.sols[MinOf(bad)] = None
            THEN Some(UnsatSol(ndom_idx, MinOf(bad) - 1))
            ELSE Some(CostMismatch(ndom_idx, MinOf(bad) - 1))

\* The first loop of check_pf at point ndom_idx: the dimension, then the
\* solutions in order.
check_point(p, ndom_idx, nobjs) ==
    IF Len(p.costs) # nobjs THEN Some(WrongDimension(ndom_idx))
    ELSE LET bad == {j \in 1..Len(p.sols) : p.sols[j] # Some(p.costs)}
         IN IF bad = {} THEN None
            ELSE IF p.sols[MinOf(bad)] = None
                 THEN Some(UnsatSol(ndom_idx, MinOf(bad) - 1))
                 ELSE Some(CostMismatch(ndom_idx, MinOf(bad) - 1))

\* A second loop of check_pf whose inner range starts at idx1, not idx1 + 1.
check_nondom_reflexive(pf) ==
    LET bad == {x \in (1..Len(pf)) \X (1..Len(pf)) :
                   /\ x[1] <= x[2]
                   /\ x[1] < Len(pf)
                   /\ check_relation(pf[x[1]].costs, pf[x[2]].costs) # "Incomparable"}
    IN IF bad = {} THEN None
       ELSE LET x == CHOOSE y \in bad :
                        \A z \in bad : y[1] < z[1] \/ (y[1] = z[1] /\ y[2] <= z[2])
                rel == check_relation(pf[x[1]].costs, pf[x[2]].costs)
            IN IF rel = "FirstDominates" THEN Some(SelfDominated(x[2] - 1))
               ELSE IF rel = "SecondDominates" THEN Some(SelfDominated(x[1] - 1))
               ELSE Some(Repeated(x[1] - 1, x[2] - 1))

\* A second loop of check_pf that reports the dominating point of the pair.
check_nondom_dominating(pf) ==
    LET bad == {x \in (1..Len(pf)) \X (1..Len(pf)) :
                   /\ x[1] < x[2]
                   /\ check_relation(pf[x[1]].costs, pf[x[2]].costs) # "Incomparable"}
    IN IF bad = {} THEN None
       ELSE LET x == CHOOSE y \in bad :
                        \A z \in bad : y[1] < z[1] \/ (y[1] = z[1] /\ y[2] <= z[2])
                rel == check_relation(pf[x[1]].costs, pf[x[2]].costs)
            IN IF rel = "FirstDominates" THEN Some(SelfDominated(x[1] - 1))
               ELSE IF rel = "SecondDominates" THEN Some(SelfDominated(x[2] - 1))
               ELSE Some(Repeated(x[1] - 1, x[2] - 1))

\* A second loop of check_pf that takes Relation::Equal with
\* Relation::FirstDominates.
check_nondom_equal_dominated(pf) ==
    LET bad == {x \in (1..Len(pf)) \X (1..Len(pf)) :
                   /\ x[1] < x[2]
                   /\ check_relation(pf[x[1]].costs, pf[x[2]].costs) # "Incomparable"}
    IN IF bad = {} THEN None
       ELSE LET x == CHOOSE y \in bad :
                        \A z \in bad : y[1] < z[1] \/ (y[1] = z[1] /\ y[2] <= z[2])
                rel == check_relation(pf[x[1]].costs, pf[x[2]].costs)
            IN IF rel = "SecondDominates" THEN Some(SelfDominated(x[1] - 1))
               ELSE Some(SelfDominated(x[2] - 1))

\* The second loop of check_pf: the first pair idx1 < idx2, idx1 outermost,
\* that is not incomparable.
check_nondom(pf) ==
    LET bad == {x \in (1..Len(pf)) \X (1..Len(pf)) :
                   /\ x[1] < x[2]
                   /\ check_relation(pf[x[1]].costs, pf[x[2]].costs) # "Incomparable"}
    IN IF bad = {} THEN None
       ELSE LET x == CHOOSE y \in bad :
                        \A z \in bad : y[1] < z[1] \/ (y[1] = z[1] /\ y[2] <= z[2])
                rel == check_relation(pf[x[1]].costs, pf[x[2]].costs)
            IN IF rel = "FirstDominates" THEN Some(SelfDominated(x[2] - 1))
               ELSE IF rel = "SecondDominates" THEN Some(SelfDominated(x[1] - 1))
               ELSE Some(Repeated(x[1] - 1, x[2] - 1))

\* A check_pf without its second loop.
check_pf_points_only(pf, nobjs) ==
    LET bad == {i \in 1..Len(pf) : check_point(pf[i], i - 1, nobjs) # None}
    IN IF bad # {} THEN check_point(pf[MinOf(bad)], MinOf(bad) - 1, nobjs)
       ELSE None

\* check_pf on a front that is not empty: None for Ok(()), else the problem.
check_pf(pf, nobjs) ==
    LET bad == {i \in 1..Len(pf) : check_point(pf[i], i - 1, nobjs) # None}
    IN IF bad # {} THEN check_point(pf[MinOf(bad)], MinOf(bad) - 1, nobjs)
       ELSE check_nondom(pf)

\* On the empty front `0..pf.len() - 1` underflows.  With overflow checks
\* (the debug build) the subtraction panics.  Without them it wraps around
\* and the outer loop runs over 2^64 - 1 indices with an empty inner range:
\* it returns Ok(()) at once when the compiler removes the loop, and does not
\* return in any run's time when it does not.
Underflows == {"panic", "hang", "ok"}

(***************************************************************************)
(* compare_pfs, as it runs when its future is polled.  It sends the        *)
(* problems probs in this order; panic says whether an assertion or the    *)
(* "should never happen" arm is hit.                                       *)
(***************************************************************************)
\* One point against the joint set: `for idx in (0..non_dom_set.len())`.
RECURSIVE scan_set(_, _, _, _, _)
scan_set(nds, c, k, n, append) ==
    IF k > n THEN [nds |-> nds, append |-> append, res |-> "done"]
    ELSE LET rel == check_relation(c, nds[k])
         IN IF rel = "FirstDominates"
            THEN scan_set([nds EXCEPT ![k] = c], c, k + 1, n, FALSE)
            ELSE IF rel = "SecondDominates"
                 THEN [nds |-> nds, append |-> append, res |-> "dominated"]
            ELSE IF rel = "Equal"
                 THEN [nds |-> nds, append |-> append, res |-> "equal"]
            ELSE scan_set(nds, c, k + 1, n, append)

\* One front against the joint set: the loop 'ndoms of the second retain.
RECURSIVE scan_front(_, _, _)
scan_front(nds, pf, i) ==
    IF i > Len(pf) THEN [nds |-> nds, keep |-> TRUE, idx |-> 0]
    ELSE LET r == scan_set(nds, pf[i].costs, 1, Len(nds), TRUE)
         IN IF r.res = "dominated"
            THEN [nds |-> r.nds, keep |-> FALSE, idx |-> i - 1]
            ELSE IF r.res = "done" /\ r.append
                 THEN scan_front(Append(r.nds, pf[i].costs), pf, i + 1)
            ELSE scan_front(r.nds, pf, i + 1)

\* A second retain that reports a dominated front and keeps it.
RECURSIVE retain_joint_keep(_, _, _, _, _)
retain_joint_keep(nds, pfs, k, kept, probs) ==
    IF k > Len(pfs) THEN [nds |-> nds, kept |-> kept, probs |-> probs]
    ELSE LET r == scan_front(nds, pfs[k].pf, 1)
         IN IF r.keep
            THEN retain_joint_keep(r.nds, pfs, k + 1, Append(kept, pfs[k]), probs)
            ELSE retain_joint_keep(r.nds, pfs, k + 1, Append(kept, pfs[k]),
                                   Append(probs, <<pfs[k].sid, OtherDominated(r.idx)>>))

\* The second retain: the fronts kept, the problems sent, the joint set.
RECURSIVE retain_joint(_, _, _, _, _)
retain_joint(nds, pfs, k, kept, probs) ==
    IF k > Len(pfs) THEN [nds |-> nds, kept |-> kept, probs |-> probs]
    ELSE LET r == scan_front(nds, pfs[k].pf, 1)
         IN IF r.keep
            THEN retain_joint(r.nds, pfs, k + 1, Append(kept, pfs[k]), probs)
            ELSE retain_joint(r.nds, pfs, k + 1, kept,
                              Append(probs, <<pfs[k].sid, OtherDominated(r.idx)>>))

\* The deduplication: every vector that repeats an earlier one is drained.
RECURSIVE dedup(_)
dedup(nds) ==
    IF nds = <<>> THEN <<>>
    ELSE <<Head(nds)>> \o dedup(SelectSeq(Tail(nds), LAMBDA c : c # Head(nds)))

\* The final check of one front: the first point and vector, point outermost,
\* that are in a dominance relation.
final_check(pf, nds) ==
    LET hits == {x \in (1..Len(pf)) \X (1..Len(nds)) :
                    check_relation(pf[x[1]].costs, nds[x[2]])
                      \in {"FirstDominates", "SecondDominates"}}
    IN IF hits = {} THEN [res |-> "ok", idx |-> 0]
       ELSE LET x == CHOOSE y \in hits :
                        \A z \in hits : y[1] < z[1] \/ (y[1] = z[1] /\ y[2] <= z[2])
            IN IF check_relation(pf[x[1]].costs, nds[x[2]]) = "FirstDominates"
               THEN [res |-> "panic", idx |-> x[1] - 1]
               ELSE [res |-> "dominated", idx |-> x[1] - 1]

RECURSIVE MaxPfLen(_)
MaxPfLen(pfs) == IF pfs = <<>> THEN 0 ELSE Max(Len(Head(pfs).pf), MaxPfLen(Tail(pfs)))

compare_pfs(pfs, nobjs) ==
    LET max_pf_len == MaxPfLen(pfs)
        long == SelectSeq(pfs, LAMBDA e : Len(e.pf) = max_pf_len)
        shorts == SelectSeq(pfs, LAMBDA e : Len(e.pf) # max_pf_len)
        short_probs == [k \in 1..Len(shorts) |-> <<shorts[k].sid, Short>>]
    IN IF Len(long) <= 1 \/ Len(long[1].pf) = 0
       THEN [probs |-> short_probs, panic |-> FALSE]
       ELSE LET nds0 == [i \in 1..Len(long[1].pf) |-> long[1].pf[i].costs]
                j == retain_joint(nds0, long, 1, <<>>, <<>>)
            IN IF j.kept = <<>>
               THEN [probs |-> short_probs \o j.probs, panic |-> TRUE]
               ELSE IF Len(j.kept) <= 1
                    THEN [probs |-> short_probs \o j.probs, panic |-> FALSE]
               ELSE LET nds == dedup(j.nds)
                        fin == [k \in 1..Len(j.kept) |-> final_check(j.kept[k].pf, nds)]
                        dom == SelectSeq([k \in 1..Len(j.kept) |->
                                            <<j.kept[k].sid, OtherDominated(fin[k].idx),
                                              fin[k].res>>],
                                         LAMBDA e : e[3] = "dominated")
                    IN [probs |-> short_probs \o j.probs
                                  \o [k \in 1..Len(dom) |-> <<dom[k][1], dom[k][2]>>],
                        panic |-> \E k \in 1..Len(fin) : fin[k].res = "panic"]

(***************************************************************************)
(* compare: one task per solver sends its front or its panic; the fronts   *)
(* received are filtered by filter_pf; compare_pfs is called; the problems *)
(* are collected.  The tasks run on the pool in any order (without a pool, *)
(* one after the other in the order of the solver map, which is one of     *)
(* these orders).  ev.buffer is the buffer both channels are created with, *)
(* ev.failed says that a try_send was refused.                             *)
(***************************************************************************)
Entry(sid, pf) == [sid |-> sid, pf |-> pf]

\* Channels created without a buffer: `mpsc::channel(0)`.
channel_buffer_none(runs) == 0

\* `mpsc::channel(solvers.len())`, for both channels.
channel_buffer(runs) == Cardinality(DOMAIN runs)

\* Sender::try_send of futures::channel::mpsc on a channel of the given
\* buffer that holds the messages q: a sender that is parked is refused
\* (Full); any other sender's message is queued, and the sender is parked
\* when the messages queued exceed the buffer.
try_send(q, msg, buffer, parked) ==
    IF parked THEN [ok |-> FALSE, q |-> q, park |-> TRUE]
    ELSE [ok |-> TRUE, q |-> Append(q, msg), park |-> Len(q) + 1 > buffer]

\* `tx.clone().try_send(msg).expect("failed to send ...")` on the channel ch
\* of compare: a clone is not parked.  A refusal panics.
send(e, ch, msg) ==
    LET r == try_send(e[ch], msg, e.buffer, FALSE)
    IN IF r.ok THEN [e EXCEPT ![ch] = r.q]
       ELSE [e EXCEPT !.pc = "panic", !.failed = TRUE]

\* compare entered with the solver map runs: what each solver's run will do.
\* first keeps what an earlier call on the same solver map returned, None
\* when there was none.
compare_start(runs) ==
    [solvers |-> runs, todo |-> DOMAIN runs, rx_pf |-> <<>>, rx_prob |-> <<>>,
     pfs |-> <<>>, pc |-> "run", unpolled |-> <<>>, result |-> <<>>, first |-> None,
     buffer |-> channel_buffer(runs), failed |-> FALSE]

\* The solver map holds any of the solvers, none included.
EvalInit ==
    /\ \E S \in SUBSET Sids : \E runs \in [S -> SolverRuns] : ev = compare_start(runs)
    /\ gen = None
    /\ line = Start
    /\ out = <<>>
    /\ gen2 = None
    /\ line2 = Start
    /\ fz = None
    /\ mn = None

\* fut_tx_result of a solver that returns a front.
SolverFront ==
    /\ ev.pc = "run"
    /\ \E sid \in ev.todo :
         /\ evaluate(ev.solvers[sid]).ok
         /\ ev' = send([ev EXCEPT !.todo = @ \ {sid}], "rx_pf",
                        Entry(sid, evaluate(ev.solvers[sid]).pf))
    /\ UNCHANGED <<gen, line, out, gen2, line2, fz, mn>>

\* fut_tx_result of a solver that panics.
SolverPanic ==
    /\ ev.pc = "run"
    /\ \E sid \in ev.todo :
         /\ ~evaluate(ev.solvers[sid]).ok
         /\ ev' = send([ev EXCEPT !.todo = @ \ {sid}], "rx_prob",
                        <<sid, evaluate(ev.solvers[sid]).prob>>)
    /\ UNCHANGED <<gen, line, out, gen2, line2, fz, mn>>

\* filter_pf on the next front received: check_pf returns Ok.
FilterPass ==
    /\ ev.pc = "run"
    /\ ev.rx_pf # <<>>
    /\ Len(Head(ev.rx_pf).pf) > 0
    /\ check_pf(Head(ev.rx_pf).pf, NObjs) = None
    /\ ev' = [ev EXCEPT !.rx_pf = Tail(@), !.pfs = Append(@, Head(ev.rx_pf))]
    /\ UNCHANGED <<gen, line, out, gen2, line2, fz, mn>>

\* filter_pf on the next front received: check_pf returns a problem.
FilterFail ==
    /\ ev.pc = "run"
    /\ ev.rx_pf # <<>>
    /\ Len(Head(ev.rx_pf).pf) > 0
    /\ check_pf(Head(ev.rx_pf).pf, NObjs) # None
    /\ ev' = send([ev EXCEPT !.rx_pf = Tail(@)], "rx_prob",
                   <<Head(ev.rx_pf).sid, check_pf(Head(ev.rx_pf).pf, NObjs)[1]>>)
    /\ UNCHANGED <<gen, line, out, gen2, line2, fz, mn>>

\* filter_pf on an empty front: check_pf underflows.  A panic of check_pf
\* ends compare by a panic (on the pool the task of filter_pf dies, and
\* `rx_filt.await.expect(..)` panics in compare).
FilterEmpty ==
    /\ ev.pc = "run"
    /\ ev.rx_pf # <<>>
    /\ Len(Head(ev.rx_pf).pf) = 0
    /\ \E u \in Underflows :
          ev' = IF u = "ok"
                THEN [ev EXCEPT !.rx_pf = Tail(@), !.pfs = Append(@, Head(ev.rx_pf))]
                ELSE [ev EXCEPT !.pc = u]
    /\ UNCHANGED <<gen, line, out, gen2, line2, fz, mn>>

\* A call of compare_pfs that is awaited: its problems are sent on tx_prob.
call_compare_pfs_awaited(e) ==
    [e EXCEPT !.pc = "collect",
              !.rx_prob = @ \o compare_pfs(e.pfs, NObjs).probs]

\* `compare_pfs(pfs, nobjs, pool, tx_prob);`: the call of an async fn builds
\* a future, and the statement drops it without polling it.  Nothing of
\* compare_pfs runs; unpolled keeps what it would have sent.
call_compare_pfs(e) ==
    [e EXCEPT !.pc = "collect",
              !.unpolled = compare_pfs(e.pfs, NObjs).probs]

\* compare without a pool (`fut_tx_result.await`, `future_prob.await`): the
\* solver map is iterated in the order order, each solver is run to its end
\* before the next, then the fronts are filtered in the order sent, then
\* compare_pfs is called and the problems are collected.  The list returned,
\* in a build where check_pf returns Ok on the empty front.
compare_sequential(runs, order) ==
    LET res == [k \in 1..Len(order) |-> [sid |-> order[k], r |-> evaluate(runs[order[k]])]]
        oks == SelectSeq(res, LAMBDA x : x.r.ok)
        errs == SelectSeq(res, LAMBDA x : ~x.r.ok)
        passes(x) == Len(x.r.pf) = 0 \/ check_pf(x.r.pf, NObjs) = None
        good == SelectSeq(oks, passes)
        bad == SelectSeq(oks, LAMBDA x : ~passes(x))
        e == [compare_start(runs) EXCEPT
                !.todo = {},
                !.rx_prob = [k \in 1..Len(errs) |-> <<errs[k].sid, errs[k].r.prob>>]
                            \o [k \in 1..Len(bad) |->
                                  <<bad[k].sid, check_pf(bad[k].r.pf, NObjs)[1]>>],
                !.pfs = [k \in 1..Len(good) |-> Entry(good[k].sid, good[k].r.pf)]]
    IN call_compare_pfs(e).rx_prob

\* The call of compare_pfs, once every front is filtered.
CallComparePfs ==
    /\ ev.pc = "run"
    /\ ev.todo = {}
    /\ ev.rx_pf = <<>>
    /\ ev' = call_compare_pfs(ev)
    /\ UNCHANGED <<gen, line, out, gen2, line2, fz, mn>>

\* rx_prob.collect(): every sender is dropped, the problems sent are returned.
Collect ==
    /\ ev.pc = "collect"
    /\ ev' = [ev EXCEPT !.pc = "done", !.result = ev.rx_prob]
    /\ UNCHANGED <<gen, line, out, gen2, line2, fz, mn>>

EvalNext ==
    \/ SolverFront
    \/ SolverPanic
    \/ FilterPass
    \/ FilterFail
    \/ FilterEmpty
    \/ CallComparePfs
    \/ Collect

SpecEval == EvalInit /\ [][EvalNext]_vars

\* compare called a second time on the same solver map, as the loop of fuzz
\* calls it once per iteration: the solvers' runs are the same, the order in
\* which the map is iterated and the fronts arrive is free again.
Again ==
    /\ ev.pc = "done"
    /\ ev.first = None
    /\ ev' = [compare_start(ev.solvers) EXCEPT !.first = Some(ev.result)]
    /\ UNCHANGED <<gen, line, out, gen2, line2, fz, mn>>

EvalTwiceNext ==
    \/ EvalNext
    \/ Again

SpecEvalTwice == EvalInit /\ [][EvalTwiceNext]_vars

\* check_relation on two cost vectors of the same length, up to MaxRelLen
\* objectives with values -MaxRelNeg..MaxCost, called with the arguments in
\* both orders.
MaxRelLen == 3

MaxRelNeg == 1

RelInit ==
    /\ \E n \in 1..MaxRelLen :
          \E c1 \in [1..n -> (0 - MaxRelNeg)..MaxCost] :
             \E c2 \in [1..n -> (0 - MaxRelNeg)..MaxCost] :
                ev = [pc |-> "rel", c1 |-> c1, c2 |-> c2, rel |-> None, swapped |-> None]
    /\ gen = None /\ line = Start /\ out = <<>> /\ gen2 = None /\ line2 = Start /\ fz = None
    /\ mn = None

CheckRelation ==
    /\ ev.pc = "rel"
    /\ ev' = [ev EXCEPT !.pc = "rel_done",
                        !.rel = Some(check_relation(ev.c1, ev.c2)),
                        !.swapped = Some(check_relation(ev.c2, ev.c1))]
    /\ UNCHANGED <<gen, line, out, gen2, line2, fz, mn>>

SpecRel == RelInit /\ [][CheckRelation]_vars

\* compare with one solver, whose front has up to MaxSelfFront points.
MaxSelfFront == 3

SelfFronts == UNION {[1..n -> Points] : n \in 0..MaxSelfFront}

SelfRuns == {[kind |-> "front", pf |-> pf] : pf \in SelfFronts} \cup {[kind |-> "panic"]}

SelfInit ==
    /\ \E sid \in Sids : \E runs \in [{sid} -> SelfRuns] : ev = compare_start(runs)
    /\ gen = None /\ line = Start /\ out = <<>> /\ gen2 = None /\ line2 = Start /\ fz = None
    /\ mn = None

SpecSelf == SelfInit /\ [][EvalNext]_vars

\* compare when every solver's run ends and every task spawned is run.
SpecEvalFair == EvalInit /\ [][EvalNext]_vars /\ WF_vars(EvalNext)

(***************************************************************************)
(* compare_pfs (src/src/eval.rs) step by step, on the flat row-major       *)
(* buffer non_dom_set it keeps, for an instance of nobjs objectives: the   *)
(* length filter, the second retain front by front, the deduplication, the *)
(* final check solver by solver.  A slice is taken with its bounds         *)
(* checked, and `step_by(0)` panics, as they do in Rust.  ev.trace keeps,  *)
(* for the front the second retain processed last, each point's costs, the *)
(* rows it was compared with and whether it was appended.                  *)
(***************************************************************************)
MaxCross == 3       \* fronts handed to compare_pfs

CrossSids == <<"A", "B", "C", "D">>

\* s[a..b] of Rust, and whether the range lies in s.
Slice(s, a, b) == SubSeq(s, a + 1, b)

InSlice(s, a, b) == a <= b /\ b <= Len(s)

\* s[a..a + src.len()].copy_from_slice(src)
copy_from_slice(s, a, src) ==
    [i \in 1..Len(s) |-> IF i > a /\ i <= a + Len(src) THEN src[i - a] ELSE s[i]]

\* s.drain(a..b)
Drain(s, a, b) == SubSeq(s, 1, a) \o SubSeq(s, b + 1, Len(s))

\* A scan of the joint set that stops at the first row the point dominates.
RECURSIVE joint_point_break(_, _, _, _, _, _, _)
joint_point_break(nds, costs, idx, len, nobjs, append, rows) ==
    IF idx >= len THEN [nds |-> nds, append |-> append, res |-> "done", rows |-> rows]
    ELSE IF ~InSlice(nds, idx, idx + nobjs)
         THEN [nds |-> nds, append |-> append, res |-> "index", rows |-> rows]
    ELSE LET row == Slice(nds, idx, idx + nobjs)
             rel == check_relation(costs, row)
         IN IF rel = "FirstDominates"
            THEN [nds |-> copy_from_slice(nds, idx, costs), append |-> FALSE,
                  res |-> "done", rows |-> Append(rows, row)]
            ELSE IF rel = "SecondDominates"
                 THEN [nds |-> nds, append |-> append, res |-> "dominated",
                       rows |-> Append(rows, row)]
            ELSE IF rel = "Equal"
                 THEN [nds |-> nds, append |-> append, res |-> "equal",
                       rows |-> Append(rows, row)]
            ELSE joint_point_break(nds, costs, idx + nobjs, len, nobjs, append,
                                   Append(rows, row))

\* A scan of the joint set that leaves the rows the point dominates in place.
RECURSIVE joint_point_keep(_, _, _, _, _, _, _)
joint_point_keep(nds, costs, idx, len, nobjs, append, rows) ==
    IF idx >= len THEN [nds |-> nds, append |-> append, res |-> "done", rows |-> rows]
    ELSE IF ~InSlice(nds, idx, idx + nobjs)
         THEN [nds |-> nds, append |-> append, res |-> "index", rows |-> rows]
    ELSE LET row == Slice(nds, idx, idx + nobjs)
             rel == check_relation(costs, row)
         IN IF rel = "FirstDominates"
            THEN joint_point_keep(nds, costs, idx + nobjs, len, nobjs, FALSE,
                                  Append(rows, row))
            ELSE IF rel = "SecondDominates"
                 THEN [nds |-> nds, append |-> append, res |-> "dominated",
                       rows |-> Append(rows, row)]
            ELSE IF rel = "Equal"
                 THEN [nds |-> nds, append |-> append, res |-> "equal",
                       rows |-> Append(rows, row)]
            ELSE joint_point_keep(nds, costs, idx + nobjs, len, nobjs, append,
                                  Append(rows, row))

\* `for idx in (0..non_dom_set.len()).step_by(nobjs)` of the second retain,
\* from idx on: the point ndom against the rows of the joint set.
RECURSIVE joint_point(_, _, _, _, _, _, _)
joint_point(nds, costs, idx, len, nobjs, append, rows) ==
    IF idx >= len THEN [nds |-> nds, append |-> append, res |-> "done", rows |-> rows]
    ELSE IF ~InSlice(nds, idx, idx + nobjs)
         THEN [nds |-> nds, append |-> append, res |-> "index", rows |-> rows]
    ELSE LET row == Slice(nds, idx, idx + nobjs)
             rel == check_relation(costs, row)
         IN IF rel = "FirstDominates"
            THEN joint_point(copy_from_slice(nds, idx, costs), costs, idx + nobjs,
                             len, nobjs, FALSE, Append(rows, row))
            ELSE IF rel = "SecondDominates"
                 THEN [nds |-> nds, append |-> append, res |-> "dominated",
                       rows |-> Append(rows, row)]
            ELSE IF rel = "Equal"
                 THEN [nds |-> nds, append |-> append, res |-> "equal",
                       rows |-> Append(rows, row)]
            ELSE joint_point(nds, costs, idx + nobjs, len, nobjs, append,
                             Append(rows, row))

\* The loop 'ndoms of the second retain on one front, from point i on.
\* abort names the panic that ends it, None when there is none.
RECURSIVE joint_front(_, _, _, _, _)
joint_front(nds, pf, i, nobjs, trace) ==
    IF i > Len(pf)
    THEN [nds |-> nds, keep |-> TRUE, idx |-> 0, abort |-> None, trace |-> trace]
    ELSE IF nobjs = 0
         THEN [nds |-> nds, keep |-> FALSE, idx |-> i - 1, abort |-> Some("step_by"),
               trace |-> trace]
    ELSE LET r == joint_point(nds, pf[i].costs, 0, Len(nds), nobjs, TRUE, <<>>)
             appended == r.res = "done" /\ r.append
             t == Append(trace, [costs |-> pf[i].costs, rows |-> r.rows,
                                 appended |-> appended])
         IN IF r.res = "index"
            THEN [nds |-> r.nds, keep |-> FALSE, idx |-> i - 1,
                  abort |-> Some("index"), trace |-> t]
            ELSE IF r.res = "dominated"
                 THEN [nds |-> r.nds, keep |-> FALSE, idx |-> i - 1, abort |-> None,
                       trace |-> t]
            ELSE IF appended
                 THEN joint_front(r.nds \o pf[i].costs, pf, i + 1, nobjs, t)
            ELSE joint_front(r.nds, pf, i + 1, nobjs, t)

\* The inner loop of the deduplication: the rows from idx2 on against the
\* row at idx1.
RECURSIVE dedup_from(_, _, _, _)
dedup_from(nds, idx1, idx2, nobjs) ==
    IF idx2 >= Len(nds) THEN [nds |-> nds, ok |-> TRUE]
    ELSE IF ~InSlice(nds, idx1, idx1 + nobjs) \/ ~InSlice(nds, idx2, idx2 + nobjs)
         THEN [nds |-> nds, ok |-> FALSE]
    ELSE IF Slice(nds, idx1, idx1 + nobjs) = Slice(nds, idx2, idx2 + nobjs)
         THEN dedup_from(Drain(nds, idx2, idx2 + nobjs), idx1, idx2, nobjs)
    ELSE dedup_from(nds, idx1, idx2 + nobjs, nobjs)

\* The outer loop of the deduplication, from idx1 on.  `len - nobjs` is a
\* usize: below zero it panics or wraps, and an index out of the buffer
\* follows.
RECURSIVE dedup_rows(_, _, _)
dedup_rows(nds, idx1, nobjs) ==
    IF Len(nds) < nobjs THEN [nds |-> nds, ok |-> FALSE]
    ELSE IF idx1 >= Len(nds) - nobjs THEN [nds |-> nds, ok |-> TRUE]
    ELSE LET r == dedup_from(nds, idx1, idx1 + nobjs, nobjs)
         IN IF r.ok THEN dedup_rows(r.nds, idx1 + nobjs, nobjs) ELSE r

\* One point of the final check against the rows from idx on.
RECURSIVE cross_point(_, _, _, _, _)
cross_point(nds, costs, idx, len, nobjs) ==
    IF idx >= len THEN "ok"
    ELSE IF ~InSlice(nds, idx, idx + nobjs) THEN "index"
    ELSE LET rel == check_relation(costs, Slice(nds, idx, idx + nobjs))
         IN IF rel = "FirstDominates" THEN "should never happen"
            ELSE IF rel = "SecondDominates" THEN "dominated"
            ELSE cross_point(nds, costs, idx + nobjs, len, nobjs)

\* future_prob of the final check on one front, from point i on.
RECURSIVE cross_front(_, _, _, _)
cross_front(nds, pf, i, nobjs) ==
    IF i > Len(pf) THEN [res |-> "ok", idx |-> 0]
    ELSE IF nobjs = 0 THEN [res |-> "step_by", idx |-> i - 1]
    ELSE LET r == cross_point(nds, pf[i].costs, 0, Len(nds), nobjs)
         IN IF r = "ok" THEN cross_front(nds, pf, i + 1, nobjs)
            ELSE [res |-> r, idx |-> i - 1]

RECURSIVE Flat(_)
Flat(pf) == IF pf = <<>> THEN <<>> ELSE Head(pf).costs \o Flat(Tail(pf))

\* compare_pfs entered with the fronts pfs.
cross_start(pfs, nobjs) ==
    [pc |-> "lengths", nobjs |-> nobjs, given |-> pfs, pfs |-> pfs, k |-> 1,
     kept |-> <<>>, non_dom_set |-> <<>>, probs |-> <<>>, trace |-> None,
     todo |-> {}, abort |-> None]

\* The fronts compare_pfs is given passed filter_pf: the fronts of points of
\* nobjs costs with a solution of these costs, no two of them comparable.
CrossPoints(n) == {Point(c, <<Some(c)>>) : c \in [1..n -> 1..MaxCost]}

CrossFronts(n) ==
    {pf \in UNION {[1..m -> CrossPoints(n)] : m \in 0..MaxFront} :
        \A i \in 1..Len(pf) : \A j \in 1..Len(pf) :
           i < j => check_relation(pf[i].costs, pf[j].costs) = "Incomparable"}

CrossInit ==
    /\ \E nobjs \in 0..NObjs : \E n \in 0..MaxCross :
          \E fs \in [1..n -> CrossFronts(nobjs)] :
             ev = cross_start([k \in 1..n |-> Entry(CrossSids[k], fs[k])], nobjs)
    /\ gen = None /\ line = Start /\ out = <<>> /\ gen2 = None /\ line2 = Start /\ fz = None
    /\ mn = None

\* The first retain and the return that follows; the joint set is seeded
\* with the costs of the first front.
CheckLengths ==
    /\ ev.pc = "lengths"
    /\ LET max_pf_len == MaxPfLen(ev.pfs)
           long == SelectSeq(ev.pfs, LAMBDA e : Len(e.pf) = max_pf_len)
           shorts == SelectSeq(ev.pfs, LAMBDA e : Len(e.pf) # max_pf_len)
           sent == [k \in 1..Len(shorts) |-> <<shorts[k].sid, Short>>]
       IN ev' = IF Len(long) <= 1 \/ Len(long[1].pf) = 0
                THEN [ev EXCEPT !.pc = "done", !.pfs = long, !.probs = sent]
                ELSE [ev EXCEPT !.pc = "joint", !.pfs = long, !.probs = sent,
                                !.non_dom_set = Flat(long[1].pf)]
    /\ UNCHANGED <<gen, line, out, gen2, line2, fz, mn>>

\* The closure of the second retain on the next front.
JointFront ==
    /\ ev.pc = "joint"
    /\ ev.k <= Len(ev.pfs)
    /\ LET e == ev.pfs[ev.k]
           r == joint_front(ev.non_dom_set, e.pf, 1, ev.nobjs, <<>>)
       IN ev' = IF r.abort # None
                THEN [ev EXCEPT !.pc = "abort", !.abort = r.abort]
                ELSE IF r.keep
                     THEN [ev EXCEPT !.k = @ + 1, !.non_dom_set = r.nds,
                                     !.kept = Append(@, e),
                                     !.trace = Some([sid |-> e.sid, keep |-> TRUE,
                                                     points |-> r.trace])]
                ELSE [ev EXCEPT !.k = @ + 1, !.non_dom_set = r.nds,
                                !.probs = Append(@, <<e.sid, OtherDominated(r.idx)>>),
                                !.trace = Some([sid |-> e.sid, keep |-> FALSE,
                                                points |-> r.trace])]
    /\ UNCHANGED <<gen, line, out, gen2, line2, fz, mn>>

\* After the second retain: the assertion, the return, the deduplication.
Dedup ==
    /\ ev.pc = "joint"
    /\ ev.k > Len(ev.pfs)
    /\ LET r == dedup_rows(ev.non_dom_set, 0, ev.nobjs)
       IN ev' = IF ev.kept = <<>>
                THEN [ev EXCEPT !.pc = "abort", !.abort = Some("assert")]
                ELSE IF Len(ev.kept) <= 1
                     THEN [ev EXCEPT !.pc = "done", !.pfs = ev.kept]
                ELSE IF ~r.ok
                     THEN [ev EXCEPT !.pc = "abort", !.abort = Some("index")]
                ELSE [ev EXCEPT !.pc = "final", !.pfs = ev.kept, !.non_dom_set = r.nds,
                                !.todo = 1..Len(ev.kept)]
    /\ UNCHANGED <<gen, line, out, gen2, line2, fz, mn>>

\* future_prob of one of the fronts kept: awaited in the order of pfs
\* without a pool, run in any order on the pool.
FinalCheck ==
    /\ ev.pc = "final"
    /\ \E k \in ev.todo :
          LET e == ev.pfs[k]
              r == cross_front(ev.non_dom_set, e.pf, 1, ev.nobjs)
              rest == ev.todo \ {k}
          IN ev' = IF r.res = "ok"
                   THEN [ev EXCEPT !.todo = rest,
                                   !.pc = IF rest = {} THEN "done" ELSE "final"]
                   ELSE IF r.res = "dominated"
                        THEN [ev EXCEPT !.todo = rest,
                                        !.pc = IF rest = {} THEN "done" ELSE "final",
                                        !.probs = Append(@, <<e.sid, OtherDominated(r.idx)>>)]
                   ELSE [ev EXCEPT !.pc = "abort", !.abort = Some(r.res)]
    /\ UNCHANGED <<gen, line, out, gen2, line2, fz, mn>>

CrossNext ==
    \/ CheckLengths
    \/ JointFront
    \/ Dedup
    \/ FinalCheck

SpecCross == CrossInit /\ [][CrossNext]_vars

(***************************************************************************)
(* MoGenerator::init (src/src/generate.rs) with the widths of the source:  *)
(* the draws of the layers and of the AND arities, one layer per step.     *)
(* gen.size and gen.prev are range.end - range.start of the last two       *)
(* layers built, gen.wpl and gen.n_clauses the width_plus_last and the     *)
(* clause count of the last one.  A gen_range on an empty range panics.    *)
(* The clause percentage is sampled at the two ends of 100..=250.          *)
(***************************************************************************)
LayerTypes == {"Tiny", "Small", "Regular"}

\* The range max_width is drawn from.
MaxWidths(layer_type) ==
    IF layer_type = "Tiny" THEN 5..10
    ELSE IF layer_type = "Small" THEN 10..20
    ELSE 10..70

\* Layer widths that start at 0.
Widths_from_zero(layer_type, max_width) == 0..max_width

\* The range a layer's width is drawn from.
Widths(layer_type, max_width) ==
    IF layer_type = "Tiny" THEN 5..max_width ELSE 10..max_width

InitPcts == {PctLo, PctHi}

\* init entered: max_width and the number of layers are drawn; objs is 0.
init_start(layer_type, max_width, n) ==
    [pc |-> "layer", layer_type |-> layer_type, max_width |-> max_width, n |-> n,
     idx |-> 0, size |-> 0, prev |-> 0, wpl |-> 0, n_clauses |-> 0, objs |-> 0,
     ands |-> 0, max_arity |-> 0, arity |-> <<>>]

InitInit ==
    /\ \E layer_type \in LayerTypes : \E max_width \in MaxWidths(layer_type) :
          \E n \in 1..MaxLayers : gen = init_start(layer_type, max_width, n)
    /\ line = Start /\ out = <<>> /\ gen2 = None /\ line2 = Start
    /\ ev = None /\ fz = None /\ mn = None

\* One round of the loop over the layers.  A layer with more than
\* 4 * width_plus_last clauses draws its objective from 1..=self.objs.
DrawLayer ==
    /\ gen.pc = "layer"
    /\ gen.idx < gen.n
    /\ \E width \in Widths(gen.layer_type, gen.max_width) : \E pct \in InitPcts :
          LET width_plus_last == IF gen.idx > 0 THEN width + gen.size ELSE width
              ncl == (pct * width_plus_last) \div PctDiv
          IN gen' = IF ncl > SoftFactor * width_plus_last /\ gen.objs < 1
                    THEN [gen EXCEPT !.pc = "panic", !.wpl = width_plus_last,
                                     !.n_clauses = ncl]
                    ELSE [gen EXCEPT !.idx = @ + 1, !.prev = gen.size,
                                     !.size = width + 1, !.wpl = width_plus_last,
                                     !.n_clauses = ncl]
    /\ UNCHANGED <<line, out, gen2, line2, ev, fz, mn>>

\* After the layers: the number of AND gadgets, then their arities from
\* 2..=max_arity.
DrawArities ==
    /\ gen.pc = "layer"
    /\ gen.idx = gen.n
    /\ \E ands \in 0..MaxAnds :
          LET width_plus_last == IF gen.n > 1 THEN gen.size + gen.prev ELSE gen.size
              max_arity == Min(MAX_CL_LEN, width_plus_last \div 2)
          IN IF ands > 0 /\ max_arity < 2
             THEN gen' = [gen EXCEPT !.pc = "panic", !.ands = ands,
                                     !.max_arity = max_arity]
             ELSE \E arity \in [1..ands -> 2..max_arity] :
                     gen' = [gen EXCEPT !.pc = "done", !.ands = ands,
                                        !.max_arity = max_arity, !.arity = arity]
    /\ UNCHANGED <<line, out, gen2, line2, ev, fz, mn>>

InitNext ==
    \/ DrawLayer
    \/ DrawArities

SpecInit == InitInit /\ [][InitNext]_vars

(***************************************************************************)
(* fuzz (src/src/fuzz.rs): the loop that draws an instance seed, generates *)
(* the instance, compares the solvers on it and records the problems.      *)
(* fz.seed is config.seed, fz.by_inst and fz.by_solver are the two maps of *)
(* FuzzResult (None for a key that is absent), fz.files the seeds of the   *)
(* buggy-<seed>.mcnf files written, fz.insts the seed each iteration       *)
(* generated its instance from, fz.probs the list the last call of         *)
(* eval::compare returned.  rng.gen() is any u64 of the model.             *)
(***************************************************************************)
MaxFuzzSeed == 3

Seeds == 0..MaxFuzzSeed

\* `for _ in 0..5`
NIters == 5

\* Lists eval::compare returns.
CompareResults ==
    {<<>>,
     <<<<"A", Panic>>>>,
     <<<<"B", SelfDominated(0)>>, <<"A", Panic>>>>}

\* An instance_results that lists only the first problem under its solver.
instance_results_first(res, inst_seed, problems) ==
    [by_inst |-> [res.by_inst EXCEPT ![inst_seed] = Some(problems)],
     by_solver |-> [slv \in Sids |->
                      IF problems # <<>> /\ problems[1][1] = slv
                      THEN Append(res.by_solver[slv], <<inst_seed, problems[1][2]>>)
                      ELSE res.by_solver[slv]]]

\* FuzzResult::instance_results.
instance_results(res, inst_seed, problems) ==
    [by_inst |-> [res.by_inst EXCEPT ![inst_seed] = Some(problems)],
     by_solver |-> [slv \in Sids |->
                      LET mine == SelectSeq(problems, LAMBDA x : x[1] = slv)
                      IN res.by_solver[slv]
                            \o [k \in 1..Len(mine) |-> <<inst_seed, mine[k][2]>>]]]

\* FuzzResult::n_problems, n_solver_problems and n_instance_problems.
RECURSIVE SumLens(_, _)
SumLens(by_inst, keys) ==
    IF keys = {} THEN 0
    ELSE LET k == CHOOSE x \in keys : TRUE
         IN (IF by_inst[k] = None THEN 0 ELSE Len(by_inst[k][1]))
               + SumLens(by_inst, keys \ {k})

n_problems(res) == SumLens(res.by_inst, DOMAIN res.by_inst)

n_solver_problems(res, solver) == Len(res.by_solver[solver])

n_instance_problems(res, inst_seed) ==
    IF res.by_inst[inst_seed] = None THEN 0 ELSE Len(res.by_inst[inst_seed][1])

\* A FuzzResult on which instance_results is called up to MaxCalls times,
\* each time with any seed and any list of (solver, problem) pairs of up to
\* MaxProbs entries.  fz.calls lists the seeds of the calls.
MaxCalls == 3

MaxProbs == 2

ProblemPairs == Sids \X {Panic, SelfDominated(0)}

ProblemLists == UNION {[1..n -> ProblemPairs] : n \in 0..MaxProbs}

AggInit ==
    /\ fz = [pc |-> "agg",
             by_inst |-> [s \in Seeds |-> None],
             by_solver |-> [slv \in Sids |-> <<>>],
             calls |-> <<>>]
    /\ gen = None /\ line = Start /\ out = <<>> /\ gen2 = None /\ line2 = Start
    /\ ev = None
    /\ mn = None

InstanceResults ==
    /\ fz.pc = "agg"
    /\ Len(fz.calls) < MaxCalls
    /\ \E inst_seed \in Seeds : \E problems \in ProblemLists :
          LET res == instance_results(fz, inst_seed, problems)
          IN fz' = [fz EXCEPT !.by_inst = res.by_inst,
                              !.by_solver = res.by_solver,
                              !.calls = Append(@, inst_seed)]
    /\ UNCHANGED <<gen, line, out, gen2, line2, ev, mn>>

SpecAgg == AggInit /\ [][InstanceResults]_vars

\* fuzz entered: FuzzResult::default(), tested = 0.
fuzz_start ==
    [pc |-> "draw", seed |-> None,
     by_inst |-> [s \in Seeds |-> None],
     by_solver |-> [slv \in Sids |-> <<>>],
     files |-> {}, insts |-> <<>>, probs |-> <<>>, tested |-> 0, iter |-> 0]

FuzzInit ==
    /\ fz = fuzz_start
    /\ gen = None /\ line = Start /\ out = <<>> /\ gen2 = None /\ line2 = Start
    /\ ev = None
    /\ mn = None

\* The inner loop draws a seed that is a key of results.by_inst: next round.
DrawRejected ==
    /\ fz.pc = "draw"
    /\ \E s \in Seeds :
          /\ fz.by_inst[s] # None
          /\ fz' = [fz EXCEPT !.seed = Some(s)]
    /\ UNCHANGED <<gen, line, out, gen2, line2, ev, mn>>

\* An inner loop that breaks at the first seed drawn.
DrawAccepted_any ==
    /\ fz.pc = "draw"
    /\ \E s \in Seeds : fz' = [fz EXCEPT !.seed = Some(s), !.pc = "compare"]
    /\ UNCHANGED <<gen, line, out, gen2, line2, ev, mn>>

\* The inner loop draws a seed that is not a key of results.by_inst: break.
DrawAccepted ==
    /\ fz.pc = "draw"
    /\ \E s \in Seeds :
          /\ fz.by_inst[s] = None
          /\ fz' = [fz EXCEPT !.seed = Some(s), !.pc = "compare"]
    /\ UNCHANGED <<gen, line, out, gen2, line2, ev, mn>>

\* An iteration that records and writes whatever compare returned.
Iteration_always(probs) ==
    LET inst_seed == fz.seed[1]
        res == instance_results(fz, inst_seed, probs)
    IN fz' = [fz EXCEPT !.by_inst = res.by_inst,
                        !.by_solver = res.by_solver,
                        !.files = @ \cup {inst_seed},
                        !.insts = Append(@, inst_seed),
                        !.probs = probs,
                        !.tested = @ + 1,
                        !.iter = @ + 1,
                        !.pc = IF fz.iter + 1 < NIters THEN "draw" ELSE "return"]

\* The rest of an iteration: the instance of config.seed is generated and
\* compared; problems are recorded and the instance is written; tested += 1.
Iteration(probs) ==
    LET inst_seed == fz.seed[1]
        res == IF probs # <<>>
               THEN instance_results(fz, inst_seed, probs)
               ELSE [by_inst |-> fz.by_inst, by_solver |-> fz.by_solver]
    IN fz' = [fz EXCEPT !.by_inst = res.by_inst,
                        !.by_solver = res.by_solver,
                        !.files = IF probs # <<>> THEN @ \cup {inst_seed} ELSE @,
                        !.insts = Append(@, inst_seed),
                        !.probs = probs,
                        !.tested = @ + 1,
                        !.iter = @ + 1,
                        !.pc = IF fz.iter + 1 < NIters THEN "draw" ELSE "return"]

CompareProblems ==
    /\ fz.pc = "compare"
    /\ \E probs \in CompareResults : probs # <<>> /\ Iteration(probs)
    /\ UNCHANGED <<gen, line, out, gen2, line2, ev, mn>>

CompareClean ==
    /\ fz.pc = "compare"
    /\ Iteration(<<>>)
    /\ UNCHANGED <<gen, line, out, gen2, line2, ev, mn>>

\* `(tested, results)`
FuzzReturn ==
    /\ fz.pc = "return"
    /\ fz' = [fz EXCEPT !.pc = "done"]
    /\ UNCHANGED <<gen, line, out, gen2, line2, ev, mn>>

FuzzNext ==
    \/ DrawRejected
    \/ DrawAccepted
    \/ CompareProblems
    \/ CompareClean
    \/ FuzzReturn

SpecFuzz == FuzzInit /\ [][FuzzNext]_vars

(***************************************************************************)
(* main (src/src/main.rs): the command given is run to its end and the     *)
(* exit code follows from what it reported.  mn.exec is the command,       *)
(* mn.exit the ExitCode main returns, None while the command runs.         *)
(***************************************************************************)
\* A Fuzz arm that takes one problem for none.
main_fuzz_code_many(res) == IF n_problems(res) > 1 THEN 1 ELSE 0

\* The Fuzz arm: `if results.n_problems() > 0 { .. return ExitCode::from(1); }`.
main_fuzz_code(res) == IF n_problems(res) > 0 THEN 1 ELSE 0

\* The Evaluate arm: `if !problems.is_empty() { .. return ExitCode::from(1); }`.
main_evaluate_code(problems) == IF problems # <<>> THEN 1 ELSE 0

MainInit ==
    /\ \/ /\ \E config \in Configs : \E d \in InitDraws(config) :
                gen = init(new(config, 1), config, d)
          /\ ev = None /\ fz = None
          /\ mn = [exec |-> "Generate", exit |-> None]
       \/ /\ fz = fuzz_start
          /\ gen = None /\ ev = None
          /\ mn = [exec |-> "Fuzz", exit |-> None]
       \/ /\ \E S \in SUBSET Sids : \E runs \in [S -> SolverRuns] :
                ev = compare_start(runs)
          /\ gen = None /\ fz = None
          /\ mn = [exec |-> "Evaluate", exit |-> None]
    /\ line = Start /\ out = <<>> /\ gen2 = None /\ line2 = Start

\* write_mcnf draws the generator's lines to the end.
RunGenerate == mn.exec = "Generate" /\ Next

RunFuzz == mn.exec = "Fuzz" /\ FuzzNext

RunEvaluate == mn.exec = "Evaluate" /\ EvalNext

ExitGenerate ==
    /\ mn.exec = "Generate"
    /\ mn.exit = None
    /\ line = End
    /\ mn' = [mn EXCEPT !.exit = Some(0)]
    /\ UNCHANGED <<gen, line, out, gen2, line2, ev, fz>>

ExitFuzz ==
    /\ mn.exec = "Fuzz"
    /\ mn.exit = None
    /\ fz.pc = "done"
    /\ mn' = [mn EXCEPT !.exit = Some(main_fuzz_code(fz))]
    /\ UNCHANGED <<gen, line, out, gen2, line2, ev, fz>>

ExitEvaluate ==
    /\ mn.exec = "Evaluate"
    /\ mn.exit = None
    /\ ev.pc = "done"
    /\ mn' = [mn EXCEPT !.exit = Some(main_evaluate_code(ev.result))]
    /\ UNCHANGED <<gen, line, out, gen2, line2, ev, fz>>

MainNext ==
    \/ RunGenerate
    \/ RunFuzz
    \/ RunEvaluate
    \/ ExitGenerate
    \/ ExitFuzz
    \/ ExitEvaluate

SpecMain == MainInit /\ [][MainNext]_vars

(***************************************************************************)
(* Properties of the line stream.                                          *)
(***************************************************************************)
IsClause(x) == x.type \in {"Hard", "Soft"}

IsGadget(org) == org.t \in {"EqCl", "AndCl", "Xor3Cl", "Xor4Cl"}

\* The items of the stream in the order the line format fixes.
RECURSIVE LayerItems(_, _)
LayerItems(g, l) ==
    IF l >= Len(g.layers) THEN <<>>
    ELSE [c \in 1..g.layers[l + 1].n_clauses |-> LayerCl(l, c - 1)]
         \o LayerItems(g, l + 1)

Items(g) ==
    [k \in 1..NHeader |-> Header(k - 1)]
    \o [k \in 1..Len(g.layers) |-> LayerDesc(k - 1)]
    \o LayerItems(g, 0)
    \o [k \in 1..g.eqs |-> EqCl(k - 1)]
    \o [k \in 1..g.ands |-> AndCl(k - 1)]
    \o [k \in 1..g.xors3 |-> Xor3Cl(k - 1)]
    \o [k \in 1..g.xors4 |-> Xor4Cl(k - 1)]

\* The origins of the lines of o, the consecutive lines of one gadget as one.
RECURSIVE Origins(_)
Origins(o) ==
    IF o = <<>> THEN <<>>
    ELSE LET n == Len(o)
             rest == Origins(SubSeq(o, 1, n - 1))
         IN IF n > 1 /\ o[n].org = o[n - 1].org /\ IsGadget(o[n].org)
            THEN rest
            ELSE Append(rest, o[n].org)

\* The index of a gadget's softness flag in gen.soft.
SoftIdx(g, org) ==
    CASE org.t = "EqCl" -> org.a + 1
      [] org.t = "AndCl" -> g.eqs + org.a + 1
      [] org.t = "Xor3Cl" -> g.eqs + g.ands + org.a + 1
      [] OTHER -> g.eqs + g.ands + g.xors3 + org.a + 1

NClauseLines == Cardinality({k \in 1..Len(out) : IsClause(out[k])})

SoftLines(o) == {k \in 1..Len(out) : out[k].type = "Soft" /\ out[k].w[1][1] = o}

SoftBuffered(o) ==
    {k \in 1..Len(gen.buffer) : gen.buffer[k].w # None /\ gen.buffer[k].w[1][1] = o}

RECURSIVE SumOver(_, _)
SumOver(S, f) ==
    IF S = {} THEN 0
    ELSE LET x == CHOOSE y \in S : TRUE IN f[x] + SumOver(S \ {x}, f)

SoftSum(o) == SumOver(SoftLines(o), [k \in SoftLines(o) |-> out[k].w[1][2]])

LastLayerEnd(g) == g.layers[Len(g.layers)].range[2]

\* The soft gadgets that have been generated: a line of theirs is out.
SoftStarted ==
    {org \in {out[k].org : k \in 1..Len(out)} :
        IsGadget(org) /\ gen.soft[SoftIdx(gen, org)] > 0}

\* The lines of an instance, by the clauses each item emits.
n_lines(g) ==
    NHeader + Len(g.layers)
    + SumSeq([k \in 1..Len(g.layers) |-> g.layers[k].n_clauses])
    + SumSeq([k \in 1..g.eqs |->
                IF g.soft[k] > 0 THEN 3 ELSE 2])
    + SumSeq([k \in 1..g.ands |->
                IF g.soft[g.eqs + k] > 0 THEN g.arity[k] + 3 ELSE g.arity[k] + 1])
    + SumSeq([k \in 1..g.xors3 |->
                IF g.soft[g.eqs + g.ands + k] > 0 THEN 5 ELSE 4])
    + SumSeq([k \in 1..g.xors4 |->
                IF g.soft[g.eqs + g.ands + g.xors3 + k] > 0 THEN 9 ELSE 4])

\* C1: the lines come in the order of the format: the ten header comments,
\* one comment per layer, the layer clauses layer by layer and clause by
\* clause, then the clauses of the equality, AND, XOR3 and XOR4 gadgets, each
\* gadget's clauses together; comments are exactly the header and layer
\* lines; what the buffer holds belongs to the gadget whose line came last
\* (the cursor moves on only with the buffer empty); at the end of the stream
\* no item is missing.
C1_LineOrder ==
    LET orgs == Origins(out)
    IN /\ Len(orgs) <= Len(Items(gen))
       /\ orgs = SubSeq(Items(gen), 1, Len(orgs))
       /\ \A k \in 1..Len(out) :
             (out[k].type = "Comment") <=> (out[k].org.t \in {"Header", "LayerDesc"})
       /\ \A k \in 1..Len(gen.buffer) :
             /\ out # <<>>
             /\ gen.buffer[k].org = out[Len(out)].org
       /\ gen.buffer # <<>> => gen.pc = "idle"
       /\ line = End => orgs = Items(gen) /\ gen.buffer = <<>>

C1_Witness ==
    /\ line = End
    /\ Len(gen.layers) = 2
    /\ gen.eqs = 1
    /\ gen.ands = 1

\* C2: at the end of the stream the number of hard and soft clause lines
\* emitted is the clause count of header line 4, n_clauses().
C2_HeaderClauseCount == line = End => NClauseLines = n_clauses(gen)

\* C3: no emitted clause holds two literals of one variable.
C3_NoRepeatedVariable ==
    IsClause(line) =>
        \A i, j \in 1..Len(line.cl) : i # j => vidx(line.cl[i]) # vidx(line.cl[j])

\* C4: for every objective the weights of the soft clauses emitted so far add
\* up to at most 2^63 - 1 (I64_MAX in the width of the model).
C4_WeightSumBound == \A o \in 1..gen.objs : SoftSum(o - 1) <= I64_MAX

\* C5: for every objective, n_soft_left is the announced soft count less the
\* soft clauses generated (emitted or buffered), is never negative, and at the
\* end of the stream is 0 with as many soft clauses emitted as announced.
C5_SoftBudget ==
    \A o \in 1..gen.objs :
        /\ gen.n_soft_left[o] >= 0
        /\ gen.n_soft_left[o] + Cardinality(SoftLines(o - 1))
             + Cardinality(SoftBuffered(o - 1)) = n_softs(gen)[o]
        /\ line = End =>
             /\ gen.n_soft_left[o] = 0
             /\ Cardinality(SoftLines(o - 1)) = n_softs(gen)[o]

C5_Witness ==
    /\ line = End
    /\ gen.objs = 1
    /\ n_softs(gen)[1] = 2
    /\ gen.n_soft_left[1] = 0

\* C6: next_free_var is the end of the last layer plus the number of soft
\* gadgets generated so far (a hard gadget takes no variable); the soft unit
\* clause of a gadget negates the blocking variable just taken, which lies
\* above the layer variables and above the blocking variables taken before;
\* at the end of the stream next_free_var is the end of the last layer plus
\* the number of soft gadgets.
C6_BlockingVars ==
    /\ gen.next_free_var = LastLayerEnd(gen) + Cardinality(SoftStarted)
    /\ line.type = "Soft" =>
         /\ line.cl = <<Not(pos_lit(gen.next_free_var - 1))>>
         /\ gen.next_free_var - 1 >= LastLayerEnd(gen)
         /\ gen.next_free_var - 1
              = LastLayerEnd(gen)
                + Cardinality({k \in 1..Len(out) : out[k].type = "Soft"}) - 1
    /\ line = End =>
         gen.next_free_var
           = LastLayerEnd(gen) + Cardinality({k \in 1..Len(gen.soft) : gen.soft[k] > 0})

C6_Witness ==
    /\ line.type = "Soft"
    /\ gen.next_free_var = LastLayerEnd(gen) + 2

C8_Terminates ==
    /\ <>(line = End)
    /\ [](line = End => Len(out) = n_lines(gen))

C8_Witness ==
    /\ line = End
    /\ gen.eqs = 1
    /\ gen.ands = 1
    /\ Len(out) = n_lines(gen)
    /\ \E k \in 1..Len(gen.soft) : gen.soft[k] > 0

(***************************************************************************)
(* Properties of compare.                                                  *)
(***************************************************************************)
\* The solvers of the map compare was given.
Supplied == DOMAIN ev.solvers

\* The front a solver returned passes the self-check.
Passes(sid) ==
    /\ ev.solvers[sid].kind = "front"
    /\ Len(ev.solvers[sid].pf) > 0
    /\ check_pf(ev.solvers[sid].pf, NObjs) = None

Front(sid) == ev.solvers[sid].pf

\* Point i of b's front is strictly dominated by a point of a's front.
DominatedBy(b, i, a) ==
    \E k \in 1..Len(Front(a)) :
        check_relation(Front(a)[k].costs, Front(b)[i].costs) = "FirstDominates"

ProblemsOf(sid) == {k \in 1..Len(ev.result) : ev.result[k][1] = sid}

\* C9: when the fronts of two solvers a and b pass the self-check and have
\* the same length, a point of b is dominated by a point of a and no point of
\* a by a point of b, compare returns (b, OtherDominated(i)) for a dominated
\* point i of b and no problem for a.
C9_OtherDominated ==
    ev.pc = "done" =>
        \A a, b \in Supplied :
            (/\ a # b
             /\ Passes(a) /\ Passes(b)
             /\ Len(Front(a)) = Len(Front(b))
             /\ \E i \in 1..Len(Front(b)) : DominatedBy(b, i, a)
             /\ \A i \in 1..Len(Front(a)) : ~DominatedBy(a, i, b))
            => /\ \E k \in ProblemsOf(b) :
                     /\ ev.result[k][2].p = "OtherDominated"
                     /\ DominatedBy(b, ev.result[k][2].i + 1, a)
               /\ ProblemsOf(a) = {}

\* C10: with M the greatest length of the fronts that pass the self-check,
\* compare returns exactly one problem, Short, for each such front shorter
\* than M, and never Short for one of length M.
C10_Short ==
    ev.pc = "done" =>
        LET passing == {s \in Supplied : Passes(s)}
            M == IF passing = {} THEN 0
                 ELSE CHOOSE m \in {Len(Front(s)) : s \in passing} :
                         \A s \in passing : Len(Front(s)) <= m
        IN \A s \in passing :
              /\ Len(Front(s)) < M =>
                    /\ Cardinality(ProblemsOf(s)) = 1
                    /\ \A k \in ProblemsOf(s) : ev.result[k][2] = Short
              /\ Len(Front(s)) = M =>
                    \A k \in ProblemsOf(s) : ev.result[k][2] # Short

Panics(sid) == ev.solvers[sid].kind = "panic"

\* The fronts check_pf lets through: the empty one included, when check_pf
\* returns on it at all.
Accepted(sid) ==
    /\ ev.solvers[sid].kind = "front"
    /\ Len(Front(sid)) = 0 \/ check_pf(Front(sid), NObjs) = None

\* C11: a solver that panics never sends a front, so that nothing of it is
\* filtered or handed to the cross-check; it gets exactly one problem, Panic;
\* compare ends by a panic or does not return only when some solver returned
\* the empty front; and the fronts handed to compare_pfs and the problems of
\* the other solvers are those their own runs decide, whether or not a
\* panicking solver is in the map.
C11_PanicIsolation ==
    /\ \A s \in Supplied : Panics(s) =>
          /\ \A k \in 1..Len(ev.rx_pf) : ev.rx_pf[k].sid # s
          /\ \A k \in 1..Len(ev.pfs) : ev.pfs[k].sid # s
          /\ \A k \in 1..Len(ev.unpolled) : ev.unpolled[k][1] # s
          /\ s \notin ev.todo =>
                /\ Cardinality({k \in 1..Len(ev.rx_prob) : ev.rx_prob[k][1] = s}) = 1
                /\ \A k \in 1..Len(ev.rx_prob) :
                      ev.rx_prob[k][1] = s => ev.rx_prob[k][2] = Panic
          /\ ev.pc = "done" =>
                /\ Cardinality(ProblemsOf(s)) = 1
                /\ \A k \in ProblemsOf(s) : ev.result[k][2] = Panic
    /\ ev.pc \in {"panic", "hang"} =>
          \E r \in Supplied : ev.solvers[r].kind = "front" /\ Front(r) = <<>>
    /\ ev.pc \in {"collect", "done"} =>
          {ev.pfs[k].sid : k \in 1..Len(ev.pfs)} = {r \in Supplied : Accepted(r)}
    /\ ev.pc = "done" =>
          \A r \in Supplied : ~Panics(r) =>
              {ev.result[k][2] : k \in ProblemsOf(r)}
                = IF Accepted(r) THEN {} ELSE {check_pf(Front(r), NObjs)[1]}

C11_Witness ==
    /\ ev.pc = "done"
    /\ Supplied = {"A", "B"}
    /\ Panics("A")
    /\ Passes("B")
    /\ Len(Front("B")) = 2
    /\ ev.result = <<<<"A", Panic>>>>

\* A point of the instance's dimension whose solutions all have its cost.
ValidPoint(p) ==
    /\ Len(p.costs) = NObjs
    /\ \A j \in 1..Len(p.sols) : p.sols[j] = Some(p.costs)

ReturnsFront(sid) == ev.solvers[sid].kind = "front"

\* Point i is the first of sid's front that is not valid, and is of the
\* wrong dimension.
FirstBadIsDimension(sid, i) ==
    /\ i \in 1..Len(Front(sid))
    /\ Len(Front(sid)[i].costs) # NObjs
    /\ \A j \in 1..(i - 1) : ValidPoint(Front(sid)[j])

\* C12: a front whose first failing point i is of the wrong dimension gets
\* exactly the problem WrongDimension(i); it is not among the fronts handed
\* to the cross-check; and a second solver whose front passes the self-check
\* gets no problem, nor would the cross-check, run on the fronts handed to
\* it, send one.
C12_WrongDimension ==
    \A s \in Supplied : \A i \in 1..MaxFront :
        (ReturnsFront(s) /\ FirstBadIsDimension(s, i)) =>
            /\ \A k \in 1..Len(ev.pfs) : ev.pfs[k].sid # s
            /\ \A k \in 1..Len(ev.unpolled) : ev.unpolled[k][1] # s
            /\ ev.pc = "done" =>
                  /\ Cardinality(ProblemsOf(s)) = 1
                  /\ \A k \in ProblemsOf(s) : ev.result[k][2] = WrongDimension(i - 1)
                  /\ \A r \in Supplied \ {s} : Passes(r) =>
                        /\ ProblemsOf(r) = {}
                        /\ ev.unpolled = <<>>

C12_Witness ==
    /\ ev.pc = "done"
    /\ Supplied = {"A", "B"}
    /\ ReturnsFront("A")
    /\ FirstBadIsDimension("A", 2)
    /\ Passes("B")
    /\ Len(Front("B")) = 1
    /\ ev.result = <<<<"A", WrongDimension(1)>>>>

\* Each of the two cost vectors is smaller than the other in some objective.
Incomparable(c1, c2) ==
    /\ \E k \in 1..NObjs : c1[k] < c2[k]
    /\ \E k \in 1..NObjs : c2[k] < c1[k]

\* A front that is not empty, of valid points whose cost vectors are
\* pairwise incomparable.
ValidFront(pf) ==
    /\ pf # <<>>
    /\ \A i \in 1..Len(pf) : ValidPoint(pf[i])
    /\ \A i, j \in 1..Len(pf) : i < j => Incomparable(pf[i].costs, pf[j].costs)

\* C13: with one solver in the map, whose front is valid, compare sends no
\* problem, does not end by a panic nor fail to return, and returns the empty
\* list; compare_pfs, were it polled, would send nothing.
C13_SingleSolver ==
    \A s \in Supplied :
        (Supplied = {s} /\ ReturnsFront(s) /\ ValidFront(Front(s))) =>
            /\ ev.rx_prob = <<>>
            /\ ev.unpolled = <<>>
            /\ ev.pc \notin {"panic", "hang"}
            /\ ev.pc = "done" => ev.result = <<>>

C13_Witness ==
    /\ ev.pc = "done"
    /\ Supplied = {"A"}
    /\ ReturnsFront("A")
    /\ ValidFront(Front("A"))
    /\ Len(Front("A")) = 2
    /\ ev.pfs = <<Entry("A", Front("A"))>>
    /\ ev.result = <<>>

CostSet(sid) == {Front(sid)[i].costs : i \in 1..Len(Front(sid))}

\* C14: when every solver of the map returns a valid front and all fronts
\* have the same set of cost vectors, in whatever order each lists them,
\* compare sends no problem and returns the empty list, and compare_pfs,
\* were it polled, would send nothing.
C14_SameFronts ==
    (/\ Supplied # {}
     /\ \A s \in Supplied : ReturnsFront(s) /\ ValidFront(Front(s))
     /\ \A s, r \in Supplied : CostSet(s) = CostSet(r)) =>
        /\ ev.rx_prob = <<>>
        /\ ev.unpolled = <<>>
        /\ ev.pc \notin {"panic", "hang"}
        /\ ev.pc = "done" => ev.result = <<>>

C14_Witness ==
    /\ ev.pc = "done"
    /\ Supplied = {"A", "B"}
    /\ ReturnsFront("A") /\ ValidFront(Front("A"))
    /\ ReturnsFront("B") /\ ValidFront(Front("B"))
    /\ Len(Front("A")) = 2
    /\ Front("B") = <<Front("A")[2], Front("A")[1]>>
    /\ ev.result = <<>>

\* Solution j of point i is unsatisfying, and nothing the self-check scans
\* before it fails: the points before i are valid, point i is of the
\* instance's dimension and its solutions before j have its cost.
FirstBadIsUnsat(sid, i, j) ==
    /\ i \in 1..Len(Front(sid))
    /\ \A h \in 1..(i - 1) : ValidPoint(Front(sid)[h])
    /\ Len(Front(sid)[i].costs) = NObjs
    /\ j \in 1..Len(Front(sid)[i].sols)
    /\ \A h \in 1..(j - 1) : Front(sid)[i].sols[h] = Some(Front(sid)[i].costs)
    /\ Front(sid)[i].sols[j] = None

\* The most solutions a point of the model has.
MaxSols == 2

\* C15, as the self-check decides it: a front in which the first thing to
\* fail, in the order of the scan, is solution j of point i being
\* unsatisfying gets exactly the problem UnsatSol(i, j); the problem is sent
\* by the filter, before compare_pfs is called, and the front is not handed
\* to it.
C15_UnsatSolFirst ==
    \A s \in Supplied : \A i \in 1..MaxFront : \A j \in 1..MaxSols :
        (ReturnsFront(s) /\ FirstBadIsUnsat(s, i, j)) =>
            /\ \A k \in 1..Len(ev.pfs) : ev.pfs[k].sid # s
            /\ \A k \in 1..Len(ev.unpolled) : ev.unpolled[k][1] # s
            /\ ev.pc \in {"collect", "done"} =>
                  /\ Cardinality({k \in 1..Len(ev.rx_prob) : ev.rx_prob[k][1] = s}) = 1
                  /\ \A k \in 1..Len(ev.rx_prob) :
                        ev.rx_prob[k][1] = s => ev.rx_prob[k][2] = UnsatSol(i - 1, j - 1)
            /\ ev.pc = "done" =>
                  /\ Cardinality(ProblemsOf(s)) = 1
                  /\ \A k \in ProblemsOf(s) : ev.result[k][2] = UnsatSol(i - 1, j - 1)

C15_Witness ==
    /\ ev.pc = "done"
    /\ Supplied = {"A", "B"}
    /\ ReturnsFront("A")
    /\ FirstBadIsUnsat("A", 2, 2)
    /\ Passes("B")
    /\ ev.result = <<<<"A", UnsatSol(1, 1)>>>>

\* C15, as claimed: every front with an unsatisfying solution in one of its
\* points is reported with an UnsatSol problem.
C15_UnsatSolAlways ==
    ev.pc = "done" =>
        \A s \in Supplied :
            (/\ ReturnsFront(s)
             /\ \E i \in 1..Len(Front(s)) : \E j \in 1..Len(Front(s)[i].sols) :
                   Front(s)[i].sols[j] = None) =>
                \E k \in ProblemsOf(s) : ev.result[k][2].p = "UnsatSol"

\* Every point of the front passes the first loop of the self-check.
AllValid(sid) == \A h \in 1..Len(Front(sid)) : ValidPoint(Front(sid)[h])

\* (i, j) is the first pair of points, i < j and i outermost, whose cost
\* vectors are comparable.
FirstComparable(sid, i, j) ==
    /\ i < j
    /\ j <= Len(Front(sid))
    /\ ~Incomparable(Front(sid)[i].costs, Front(sid)[j].costs)
    /\ \A a \in 1..Len(Front(sid)) : \A b \in (a + 1)..Len(Front(sid)) :
          (a < i \/ (a = i /\ b < j)) =>
              Incomparable(Front(sid)[a].costs, Front(sid)[b].costs)

\* C16, as the self-check decides it: a front of valid points in which the
\* first comparable pair (i, j) has identical cost vectors gets exactly the
\* problem Repeated(i, j), whatever points follow; and every front of valid
\* points with two identical cost vectors gets one problem, Repeated or
\* SelfDominated.
C16_RepeatedFirst ==
    ev.pc = "done" =>
        \A s \in Supplied :
            (ReturnsFront(s) /\ AllValid(s)) =>
                /\ \A i \in 1..MaxSelfFront : \A j \in 1..MaxSelfFront :
                      (/\ FirstComparable(s, i, j)
                       /\ Front(s)[i].costs = Front(s)[j].costs) =>
                          ev.result = <<<<s, Repeated(i - 1, j - 1)>>>>
                /\ (\E i \in 1..Len(Front(s)) : \E j \in (i + 1)..Len(Front(s)) :
                       Front(s)[i].costs = Front(s)[j].costs) =>
                          /\ Len(ev.result) = 1
                          /\ ev.result[1][1] = s
                          /\ ev.result[1][2].p \in {"Repeated", "SelfDominated"}

C16_Witness ==
    /\ ev.pc = "done"
    /\ Supplied = {"A"}
    /\ ReturnsFront("A")
    /\ Len(Front("A")) = 3
    /\ AllValid("A")
    /\ FirstComparable("A", 2, 3)
    /\ Front("A")[2].costs = Front("A")[3].costs
    /\ ev.result = <<<<"A", Repeated(1, 2)>>>>

\* C16, as claimed: every front of valid points with two identical cost
\* vectors is reported with a Repeated problem.
C16_RepeatedAlways ==
    ev.pc = "done" =>
        \A s \in Supplied :
            (/\ ReturnsFront(s)
             /\ AllValid(s)
             /\ \E i \in 1..Len(Front(s)) : \E j \in (i + 1)..Len(Front(s)) :
                   Front(s)[i].costs = Front(s)[j].costs) =>
                \E k \in ProblemsOf(s) : ev.result[k][2].p = "Repeated"

\* The (solver, problem) pairs of a returned list.
Pairs(probs) == {probs[k] : k \in 1..Len(probs)}

\* C17: two calls of compare on the same solvers with the same runs, the
\* solver map iterated and the fronts arriving in any two orders, return
\* lists with the same set of (solver, problem) pairs, tags and index
\* parameters included.
C17_PermutationStable ==
    (ev.pc = "done" /\ ev.first # None) => Pairs(ev.result) = Pairs(ev.first[1])

\* Two calls that return the same two pairs in different orders.
C17_Witness ==
    /\ ev.pc = "done"
    /\ ev.first # None
    /\ Len(ev.result) = 2
    /\ ev.result # ev.first[1]
    /\ Pairs(ev.result) = Pairs(ev.first[1])
    /\ \E s \in Supplied : ReturnsFront(s) /\ ProblemsOf(s) # {}

\* Every solver of the map returns the empty front (no solver, in the empty
\* map).
AllEmpty ==
    \A s \in Supplied : ReturnsFront(s) /\ Front(s) = <<>>

\* C18: with an empty solver map, and with solvers that all return the empty
\* front, compare neither aborts nor loops, sends no problem and returns the
\* empty list.
C18_EmptyInputs ==
    AllEmpty =>
        /\ ev.pc \notin {"panic", "hang"}
        /\ ev.rx_prob = <<>>
        /\ ev.pc = "done" => ev.result = <<>>

\* C19: when every solver's run returns or panics and every task spawned is
\* run, compare eventually returns.
C19_Terminates == <>(ev.pc = "done")

\* C20: within one run of fuzz no two iterations generate their instance
\* from the same seed.
C20_SeedsDistinct ==
    \A i \in 1..Len(fz.insts) : \A j \in 1..Len(fz.insts) :
        i # j => fz.insts[i] # fz.insts[j]

\* How often (solver, problem) is listed under seed in by_inst, and how often
\* (seed, problem) is listed under solver in by_solver.
InstCount(seed, slv, prob) ==
    IF fz.by_inst[seed] = None THEN 0
    ELSE Cardinality({k \in 1..Len(fz.by_inst[seed][1]) :
                         fz.by_inst[seed][1][k] = <<slv, prob>>})

SolverCount(seed, slv, prob) ==
    Cardinality({k \in 1..Len(fz.by_solver[slv]) :
                    fz.by_solver[slv][k] = <<seed, prob>>})

RECURSIVE SumSolvers(_)
SumSolvers(S) ==
    IF S = {} THEN 0
    ELSE LET s == CHOOSE x \in S : TRUE
         IN Len(fz.by_solver[s]) + SumSolvers(S \ {s})

IndexesAgree ==
    /\ \A seed \in Seeds : \A pr \in ProblemPairs :
          InstCount(seed, pr[1], pr[2]) = SolverCount(seed, pr[1], pr[2])
    /\ n_problems(fz) = SumSolvers(Sids)

\* No two calls of instance_results had the same seed.
DistinctCalls ==
    \A i \in 1..Len(fz.calls) : \A j \in 1..Len(fz.calls) :
        i # j => fz.calls[i] # fz.calls[j]

IterationEffect ==
    (fz.pc = "compare" /\ fz'.pc # "compare") =>
        LET s == fz.seed[1]
        IN /\ fz'.insts = Append(fz.insts, s)
           /\ fz'.tested = fz.tested + 1
           /\ fz'.probs # <<>> =>
                 /\ fz.by_inst[s] = None
                 /\ fz'.by_inst = [fz.by_inst EXCEPT ![s] = Some(fz'.probs)]
                 /\ n_problems(fz') = n_problems(fz) + Len(fz'.probs)
                 /\ \A slv \in Sids :
                       /\ Len(fz'.by_solver[slv]) >= Len(fz.by_solver[slv])
                       /\ SubSeq(fz'.by_solver[slv], 1, Len(fz.by_solver[slv]))
                             = fz.by_solver[slv]
                 /\ fz'.files = fz.files \cup {s}
           /\ fz'.probs = <<>> =>
                 /\ fz'.by_inst = fz.by_inst
                 /\ fz'.by_solver = fz.by_solver
                 /\ fz'.files = fz.files
                 /\ fz'.by_inst[s] = None
                 /\ s \notin fz'.files

\* C22: an iteration of fuzz records its seed and writes buggy-<seed>.mcnf
\* if and only if compare returned a problem, and leaves the indexes and the
\* files unchanged otherwise; tested grows by one per iteration, the files
\* written are the keys of by_inst, and the count returned is the number of
\* iterations.
C22_RecordIffProblem ==
    /\ [][IterationEffect]_vars
    /\ [](/\ fz.files = {s \in Seeds : fz.by_inst[s] # None}
          /\ fz.tested = Len(fz.insts)
          /\ fz.pc \in {"return", "done"} => fz.tested = NIters)

C22_Witness ==
    /\ fz # None
    /\ fz.pc = "done"
    /\ fz.tested = NIters
    /\ Cardinality(fz.files) = 2
    /\ \E i \in 1..Len(fz.insts) : fz.insts[i] \notin fz.files
    /\ n_problems(fz) = 3

\* The run of main reported a problem: fuzz recorded one, or the list
\* compare returned for the evaluate command is not empty.
Reported ==
    \/ mn.exec = "Fuzz" /\ \E slv \in Sids : fz.by_solver[slv] # <<>>
    \/ mn.exec = "Evaluate" /\ Len(ev.result) > 0

\* C23: the exit code main returns is 1 if and only if the fuzz run or the
\* evaluate command reported a problem, and 0 otherwise, the generate
\* command included.
C23_ExitCode ==
    (mn # None /\ mn.exit # None) =>
        /\ mn.exit[1] \in {0, 1}
        /\ mn.exit[1] = 1 <=> Reported
        /\ mn.exec = "Generate" => mn.exit[1] = 0

C23_Witness ==
    /\ mn # None
    /\ mn.exec = "Fuzz"
    /\ mn.exit = Some(1)
    /\ n_problems(fz) = 1

\* The weights of the soft clauses generated so far, emitted or buffered.
SoftOutIdx == {k \in 1..Len(out) : out[k].type = "Soft"}

SoftBufIdx == {k \in 1..Len(gen.buffer) : gen.buffer[k].w # None}

WeightsGenerated ==
    SumOver(SoftOutIdx, [k \in SoftOutIdx |-> out[k].w[1][2]])
      + SumOver(SoftBufIdx, [k \in SoftBufIdx |-> gen.buffer[k].w[1][2]])

\* C24: in every state of the generator weight_sum is the sum of the weights
\* of the soft clauses generated so far.
C24_WeightSumTracks == gen.weight_sum = WeightsGenerated

\* Line k of the stream is the one returned when the cursor advanced onto a
\* gadget: the first line of its origin.
GadgetFirst(k) ==
    /\ IsGadget(out[k].org)
    /\ k > 1 => out[k - 1].org # out[k].org

\* The gadget of line k is soft: one of its clauses, emitted or buffered,
\* carries a weight.
GadgetSoft(k) ==
    \/ \E j \in 1..Len(out) : out[j].org = out[k].org /\ out[j].type = "Soft"
    \/ \E j \in 1..Len(gen.buffer) :
          gen.buffer[j].org = out[k].org /\ gen.buffer[j].w # None

AndLines(idx) == {k \in 1..Len(out) : out[k].org = AndCl(idx)}

\* C26: a soft AND gadget of arity k emits k + 2 clauses, the long clause,
\* the k binary clauses and the soft unit clause, and no binary clause holds
\* the blocking variable.
C26_SoftAndClauses ==
    /\ line = End =>
          \A idx \in 0..(gen.ands - 1) :
              gen.soft[gen.eqs + idx + 1] > 0 =>
                  Cardinality(AndLines(idx)) = gen.arity[idx + 1] + 2
    /\ (/\ out # <<>>
        /\ line.type = "Hard"
        /\ out[Len(out)].org.t = "AndCl"
        /\ Len(line.cl) = 2) =>
          \A j \in 1..2 : vidx(line.cl[j]) < LastLayerEnd(gen)

\* The variable of lit lies in the range of layer l.
InLayer(lit, l) ==
    /\ gen.layers[l + 1].range[1] <= vidx(lit)
    /\ vidx(lit) < gen.layers[l + 1].range[2]

\* Every literal of cl is of a variable of layer lidx or of an earlier layer.
FromLayersUpTo(cl, lidx) ==
    \A j \in 1..Len(cl) :
        /\ \E l \in 0..lidx : InLayer(cl[j], l)
        /\ vidx(cl[j]) < gen.layers[lidx + 1].range[2]
        /\ vidx(cl[j]) < LastLayerEnd(gen)

\* C27: every literal of a clause generated for layer l, returned or still
\* being drawn, is of a variable in the range of a layer l' <= l, never of a
\* later layer nor a blocking variable.
C27_LayerClauseVars ==
    /\ (IsClause(line) /\ out # <<>> /\ out[Len(out)].org.t = "LayerCl") =>
          FromLayersUpTo(line.cl, out[Len(out)].org.a)
    /\ gen.pc = "layer_clause" => FromLayersUpTo(gen.loc.cl, gen.loc.lidx)

C27_Witness ==
    /\ IsClause(line)
    /\ out # <<>>
    /\ out[Len(out)].org.t = "LayerCl"
    /\ out[Len(out)].org.a = 1
    /\ \E j \in 1..Len(line.cl) : InLayer(line.cl[j], 0)
    /\ \E j \in 1..Len(line.cl) : InLayer(line.cl[j], 1)

\* sid returns a front, not empty, that the self-check rejects.
FailsSelfCheck(sid) ==
    /\ ReturnsFront(sid)
    /\ Front(sid) # <<>>
    /\ ~ValidFront(Front(sid))

SelfCheckTags == {"WrongDimension", "UnsatSol", "CostMismatch", "Repeated", "SelfDominated"}

CrossCheckTags == {"Short", "OtherDominated"}

\* C28: a solver whose front fails the self-check gets exactly one problem,
\* of the self-check, and neither Short nor OtherDominated; its front is not
\* among the fronts handed to compare_pfs, so it counts neither for the
\* maximum length nor for the joint non-dominated set, and compare_pfs would
\* send nothing for it; nothing of the cross-check exists before every front
\* has been through the self-check.
C28_FailingFrontRemoved ==
    /\ \A s \in Supplied :
          FailsSelfCheck(s) =>
              /\ \A k \in 1..Len(ev.pfs) : ev.pfs[k].sid # s
              /\ \A k \in 1..Len(ev.unpolled) : ev.unpolled[k][1] # s
              /\ \A k \in 1..Len(ev.rx_prob) :
                    ev.rx_prob[k][1] = s => ev.rx_prob[k][2].p \in SelfCheckTags
              /\ ev.pc \in {"collect", "done"} =>
                    Cardinality({k \in 1..Len(ev.rx_prob) : ev.rx_prob[k][1] = s}) = 1
              /\ ev.pc = "done" =>
                    /\ Cardinality(ProblemsOf(s)) = 1
                    /\ \A k \in ProblemsOf(s) : ev.result[k][2].p \in SelfCheckTags
    /\ (\/ ev.unpolled # <<>>
        \/ \E k \in 1..Len(ev.rx_prob) : ev.rx_prob[k][2].p \in CrossCheckTags) =>
          /\ ev.todo = {}
          /\ ev.rx_pf = <<>>
          /\ ev.pc \in {"collect", "done"}

\* One front fails the self-check, the other passes and is longer than the
\* failing front's valid part would be: the failing solver has its one
\* problem, and compare_pfs was given the passing front alone.
C28_Witness ==
    /\ ev.pc = "done"
    /\ Supplied = {"A", "B"}
    /\ FailsSelfCheck("A")
    /\ Len(Front("A")) = 2
    /\ ReturnsFront("B") /\ ValidFront(Front("B")) /\ Len(Front("B")) = 1
    /\ Len(ev.pfs) = 1 /\ ev.pfs[1].sid = "B"
    /\ ev.unpolled = <<>>
    /\ Len(ev.result) = 1
    /\ ev.result[1][1] = "A"
    /\ ev.result[1][2].p = "SelfDominated"

\* c1 <= c2 in every component.
LeqAll(c1, c2) == \A k \in 1..Len(c1) : c1[k] <= c2[k]

\* Pareto dominance (minimisation): a <= b componentwise and a # b.
Dominates(a, b) == LeqAll(a, b) /\ a # b

\* C29: on cost vectors of the same length check_relation returns
\* FirstDominates iff c1 dominates c2, SecondDominates iff c2 dominates c1,
\* Equal iff c1 = c2 and Incomparable otherwise; with the arguments swapped
\* FirstDominates and SecondDominates change places and Equal and
\* Incomparable stay.
C29_ParetoDominance ==
    ev.pc = "rel_done" =>
        /\ ev.rel[1] \in {"FirstDominates", "SecondDominates", "Equal", "Incomparable"}
        /\ ev.rel[1] = "FirstDominates" <=> Dominates(ev.c1, ev.c2)
        /\ ev.rel[1] = "SecondDominates" <=> Dominates(ev.c2, ev.c1)
        /\ ev.rel[1] = "Equal" <=> ev.c1 = ev.c2
        /\ ev.rel[1] = "Incomparable" <=>
              (~LeqAll(ev.c1, ev.c2) /\ ~LeqAll(ev.c2, ev.c1))
        /\ ev.swapped[1] =
              CASE ev.rel[1] = "FirstDominates" -> "SecondDominates"
                [] ev.rel[1] = "SecondDominates" -> "FirstDominates"
                [] OTHER -> ev.rel[1]

\* Three objectives, the first vector smaller in one, equal in the others.
C29_Witness ==
    /\ ev.pc = "rel_done"
    /\ Len(ev.c1) = 3
    /\ ev.c1[1] = ev.c2[1] /\ ev.c1[2] < ev.c2[2] /\ ev.c1[3] = ev.c2[3]
    /\ ev.rel = Some("FirstDominates")
    /\ ev.swapped = Some("SecondDominates")

\* What the scan order of the self-check makes of a front that is not empty:
\* the first point that is not valid gives WrongDimension, or else the
\* problem of its first bad witness; with every point valid, the first
\* comparable pair gives SelfDominated of the dominated point or Repeated.
ScanPoint(pf) ==
    LET i == MinOf({h \in 1..Len(pf) : ~ValidPoint(pf[h])})
    IN IF Len(pf[i].costs) # NObjs THEN WrongDimension(i - 1)
       ELSE LET j == MinOf({h \in 1..Len(pf[i].sols) : pf[i].sols[h] # Some(pf[i].costs)})
            IN IF pf[i].sols[j] = None THEN UnsatSol(i - 1, j - 1)
               ELSE CostMismatch(i - 1, j - 1)

ComparablePairs(pf) ==
    {x \in (1..Len(pf)) \X (1..Len(pf)) :
        x[1] < x[2] /\ ~Incomparable(pf[x[1]].costs, pf[x[2]].costs)}

ScanPairs(pf) ==
    LET x == CHOOSE y \in ComparablePairs(pf) :
                 \A z \in ComparablePairs(pf) :
                     y[1] < z[1] \/ (y[1] = z[1] /\ y[2] <= z[2])
    IN IF pf[x[1]].costs = pf[x[2]].costs THEN Repeated(x[1] - 1, x[2] - 1)
       ELSE IF Dominates(pf[x[1]].costs, pf[x[2]].costs) THEN SelfDominated(x[2] - 1)
       ELSE SelfDominated(x[1] - 1)

ScanOrder(sid) ==
    IF \E h \in 1..Len(Front(sid)) : ~ValidPoint(Front(sid)[h])
    THEN <<<<sid, ScanPoint(Front(sid))>>>>
    ELSE IF ComparablePairs(Front(sid)) # {}
         THEN <<<<sid, ScanPairs(Front(sid))>>>>
         ELSE <<>>

\* C30: for a front that is not empty the self-check sends the first problem
\* of its scan order and nothing else, and that is what compare returns for
\* the solver.
C30_FirstProblemOnly ==
    \A s \in Supplied :
        (Supplied = {s} /\ ReturnsFront(s) /\ Front(s) # <<>>) =>
            /\ Len(ev.rx_prob) <= 1
            /\ ev.pc \in {"collect", "done"} => ev.rx_prob = ScanOrder(s)
            /\ ev.pc = "done" => ev.result = ScanOrder(s)

\* Three valid points, the first and the second incomparable, the third
\* dominating the first: SelfDominated(0).
C30_Witness ==
    /\ ev.pc = "done"
    /\ Supplied = {"A"}
    /\ ReturnsFront("A")
    /\ Len(Front("A")) = 3
    /\ AllValid("A")
    /\ FirstComparable("A", 1, 3)
    /\ Dominates(Front("A")[3].costs, Front("A")[1].costs)
    /\ ev.result = <<<<"A", SelfDominated(0)>>>>

\* The rows of the flat joint set of an instance of nobjs >= 1 objectives.
Rows(nds, nobjs) ==
    {Slice(nds, (r - 1) * nobjs, r * nobjs) : r \in 1..(Len(nds) \div nobjs)}

\* The final check of compare_pfs was reached with every front it was given.
EqualLengths == \A k \in 1..Len(ev.given) : Len(ev.given[k].pf) = Len(ev.given[1].pf)

\* C31: in the final cross-check no point of a front retained by the
\* joint-set construction strictly dominates a row of the deduplicated joint
\* set, whatever the order of the fronts given, so that the arm
\* `panic!("should never happen")` is never taken.
C31_FirstDominatesUnreachable ==
    /\ ev.abort # Some("should never happen")
    /\ ev.pc = "final" =>
          \A k \in 1..Len(ev.pfs) : \A i \in 1..Len(ev.pfs[k].pf) :
             \A row \in Rows(ev.non_dom_set, ev.nobjs) :
                ~Dominates(ev.pfs[k].pf[i].costs, row)

\* The final check ran on three fronts of two points each, two of them
\* retained, after a row of the first front was overwritten in the joint set.
C31_Witness ==
    /\ ev.pc = "done"
    /\ ev.todo = {}
    /\ Len(ev.given) = MaxCross
    /\ EqualLengths
    /\ Len(ev.given[1].pf) = 2
    /\ Len(ev.pfs) >= 2
    /\ \E i \in 1..2 : ev.given[1].pf[i].costs \notin Rows(ev.non_dom_set, ev.nobjs)

\* The second retain of compare_pfs has just processed a front and retained
\* it.
Processed ==
    ev.pc = "joint" /\ ev.trace # None /\ ev.trace[1].keep

\* C32: immediately after the joint-set construction has processed a front
\* that is retained, every point of that front is equal to some row of the
\* joint set, and a point was appended as a new row only if it was
\* incomparable to every row it was compared with.
C32_RetainedFrontInJointSet ==
    Processed =>
        LET pf == ev.pfs[ev.k - 1].pf
            points == ev.trace[1].points
        IN /\ ev.pfs[ev.k - 1].sid = ev.trace[1].sid
           /\ Len(points) = Len(pf)
           /\ \A i \in 1..Len(pf) :
                 /\ points[i].costs = pf[i].costs
                 /\ pf[i].costs \in Rows(ev.non_dom_set, ev.nobjs)
                 /\ points[i].appended =>
                       \A r \in 1..Len(points[i].rows) :
                          /\ ~LeqAll(pf[i].costs, points[i].rows[r])
                          /\ ~LeqAll(points[i].rows[r], pf[i].costs)

\* The second retain retained a front after one of its points overwrote a
\* row and another was appended.
C32_Witness ==
    /\ Processed
    /\ ev.k > 2
    /\ \E i \in 1..Len(ev.trace[1].points) : ev.trace[1].points[i].appended
    /\ \E i \in 1..Len(ev.trace[1].points) :
          \E r \in 1..Len(ev.trace[1].points[i].rows) :
             Dominates(ev.trace[1].points[i].costs, ev.trace[1].points[i].rows[r])

\* s is a prefix of t.
Prefix(s, t) == Len(s) <= Len(t) /\ SubSeq(t, 1, Len(s)) = s

\* C33: during a fuzz run both indexes are append-only: no step of the loop
\* removes or replaces the list stored in by_inst under a seed, nor an entry
\* of a list of by_solver (the new entries come after the ones stored); a
\* seed with recorded problems is not recorded again.
C33_AppendOnly ==
    [][/\ \A s \in Seeds :
             fz.by_inst[s] # None => fz'.by_inst[s] = fz.by_inst[s]
       /\ \A slv \in Sids : Prefix(fz.by_solver[slv], fz'.by_solver[slv])]_vars

\* instance_results was called for two seeds, the second call adding to the
\* list of a solver the first call had created.
C33_Witness ==
    /\ fz.iter >= 2
    /\ Cardinality({s \in Seeds : fz.by_inst[s] # None}) >= 2
    /\ \E slv \in Sids :
          /\ Len(fz.by_solver[slv]) >= 2
          /\ fz.by_solver[slv][1][1] # fz.by_solver[slv][2][1]
    /\ fz.probs # <<>>

\* No solver is named by two entries of the list probs.
OnePerSolver(probs) ==
    \A i \in 1..Len(probs) : \A j \in 1..Len(probs) :
       probs[i][1] = probs[j][1] => i = j

\* C34: compare returns at most one problem per solver: no solver is named
\* by two pairs of the problems sent (a caught panic, the self-check) and
\* returned, nor of these together with the ones the length filter, the
\* joint-set construction and the final check of compare_pfs send.
C34_OneProblemPerSolver ==
    /\ OnePerSolver(ev.rx_prob \o ev.unpolled)
    /\ OnePerSolver(ev.result)

\* compare returned a problem for each of two solvers, one of them a caught
\* panic and the other one found by the self-check.
C34_Witness ==
    /\ ev.pc = "done"
    /\ Len(ev.result) = 2
    /\ \E i \in 1..2 : ev.result[i][2] = Panic
    /\ \E i \in 1..2 : ev.result[i][2] # Panic

\* The orders in which a map with the keys S is iterated.
Orders(S) ==
    {o \in [1..Cardinality(S) -> S] : \A i, j \in 1..Cardinality(S) : o[i] = o[j] => i = j}

\* C35: for fixed solver results the set of (solver, problem) pairs compare
\* returns is the same for every interleaving of the tasks on the pool, and
\* it is the set returned without a pool, whatever the order in which the
\* solver map is iterated: the order in which the fronts arrive changes
\* neither the solvers flagged nor the problems and their indexes.
C35_InterleavingStable ==
    ev.pc = "done" =>
        \A order \in Orders(DOMAIN ev.solvers) :
           Pairs(ev.result) = Pairs(compare_sequential(ev.solvers, order))

\* compare returned the empty list for two solvers whose fronts the filter
\* kept, the front of B arriving before the front of A, one of them
\* dominated by the other.
C35_Witness ==
    /\ ev.pc = "done"
    /\ Cardinality(DOMAIN ev.solvers) = 2
    /\ Len(ev.pfs) = 2
    /\ ev.pfs[1].sid = "B"
    /\ ev.unpolled # <<>>
    /\ ev.result = <<>>

\* C36: no try_send of compare on the front channel or on the problem
\* channel is refused: the messages queued on either channel, those the
\* length filter, the joint-set construction and the final check of
\* compare_pfs send included, never exceed the buffer of solvers.len()
\* places, in any interleaving, and no "failed to send" panic occurs.
C36_SendsFindRoom ==
    /\ ~ev.failed
    /\ Len(ev.rx_pf) <= ev.buffer
    /\ Len(ev.rx_prob) + Len(ev.unpolled) <= ev.buffer

\* The problem channel of two solvers holds a problem of each, one of them
\* sent by filter_pf, when the problems are collected.
C36_Witness ==
    /\ ev.pc = "collect"
    /\ ev.buffer = 2
    /\ Len(ev.rx_prob) = 2
    /\ \E i \in 1..2 : ev.rx_prob[i][2] # Panic

\* C37: for every number of objectives, zero included, and every two or
\* more fronts of equal length that are not empty and pass the self-check,
\* the cross-check runs to its end: no panic, and no slice taken out of the
\* flat joint buffer.
C37_CrossCheckCompletes ==
    (Len(ev.given) >= 2 /\ EqualLengths /\ Len(ev.given[1].pf) > 0) =>
        (ev.pc # "abort" /\ ev.abort = None)

\* C38: `debug_assert!(arity < MAX_CL_LEN)` of and_clauses holds for every
\* AND gadget of every instance init can build: no arity drawn from
\* 2..=min(MAX_CL_LEN, width_plus_last / 2) reaches MAX_CL_LEN, for every
\* layer type and number of layers.
C38_ArityBelowMax ==
    gen.pc = "done" => \A k \in 1..Len(gen.arity) : gen.arity[k] < MAX_CL_LEN

\* C39: init never draws from an empty range: every layer's clause count is
\* at most 4 * width_plus_last, so no layer is flagged soft and no draw
\* from 1..=objs is made while objs is 0; and the range 2..=max_arity of
\* the arities is not empty, for every layer type and number of layers.
C39_NoEmptyRange ==
    /\ gen.pc # "panic"
    /\ gen.n_clauses <= SoftFactor * gen.wpl
    /\ (gen.pc = "done" /\ gen.ands > 0) => gen.max_arity >= 2

\* init drew the arity of an AND gadget from the smallest range there is,
\* 2..=3 on a single layer of width 5, whose clause count was drawn at 250
\* percent.
C39_Witness ==
    /\ gen.pc = "done"
    /\ gen.n = 1
    /\ gen.size = 6
    /\ gen.n_clauses = (PctHi * 5) \div PctDiv
    /\ gen.ands > 0
    /\ gen.max_arity = 3
    /\ gen.arity[1] = 3

\* The literals of the clause cl.
LitsOf(cl) == {cl[i] : i \in 1..Len(cl)}

\* C40 (as stated): a literal leaves the unused pool of a layer only by
\* being inserted into the layer clause under construction; none is removed
\* from the pool and then discarded, so that the pool holds exactly the
\* literals of the layer's range that no layer clause contains.
C40_LeavesPoolByInsertion ==
    [][\A l \in 1..Len(gen.layers) :
          \A lit \in gen.layers[l].unused \ gen'.layers[l].unused :
             lit \in LitsOf(IF gen'.pc = "layer_clause" THEN gen'.loc.cl ELSE line'.cl)]_vars

\* C40: a pool never gains a literal, and a literal leaves the pool of a
\* layer only by being drawn from it in layer_clause, one literal per draw:
\* it is inserted into the clause under construction, or, when its variable
\* is already in that clause, discarded, the clause staying as it was.
C40_LeavesPoolByDraw ==
    [][\A l \in 1..Len(gen.layers) :
          LET gone == gen.layers[l].unused \ gen'.layers[l].unused
          IN /\ gen'.layers[l].unused \subseteq gen.layers[l].unused
             /\ gone # {} =>
                   /\ gen.pc = "layer_clause"
                   /\ Cardinality(gone) = 1
                   /\ \A lit \in gone :
                         IF vidx(lit) \in gen.loc.mark
                         THEN gen'.pc = "layer_clause" /\ gen'.loc.cl = gen.loc.cl
                         ELSE lit \in LitsOf(IF gen'.pc = "layer_clause"
                                             THEN gen'.loc.cl ELSE line'.cl)]_vars

\* The first layer clause is under construction and a literal of layer 0
\* is neither in the pool nor in the clause: it was drawn from the pool
\* when its variable was already in the clause, and discarded.
C40_Witness ==
    /\ gen.pc = "layer_clause"
    /\ gen.loc.lidx = 0
    /\ gen.loc.cidx = 0
    /\ \E lit \in RangeLits(gen.layers[1].range[1], gen.layers[1].range[2]) :
          /\ lit \notin gen.layers[1].unused
          /\ lit \notin LitsOf(gen.loc.cl)
          /\ Not(lit) \in LitsOf(gen.loc.cl)

====
